---- MODULE Spec2Model ----
(***************************************************************************)
(* Order-item approval, bulk approve-all, daily dispensing, the drug       *)
(* catalogue and the chatbot of the drug inventory server, as transactions *)
(* on the stock ledger.                                                    *)
(*                                                                         *)
(* The committed database is the variable db.  A request is run by one of  *)
(* the processes of Procs, and every awaited db.query of a handler is a    *)
(* step of its own: it goes through or it raises, and the requests of the  *)
(* other processes run between any two of them.  PostgreSQL runs each      *)
(* request's BEGIN .. COMMIT/ROLLBACK as a READ COMMITTED transaction (the *)
(* variable tx): writes are invisible until COMMIT, a write waits for the  *)
(* row lock, the rows of SELECT .. FOR UPDATE stay locked until the        *)
(* transaction ends, and after a failed statement every statement of the   *)
(* transaction fails until it is ended.                                    *)
(***************************************************************************)
EXTENDS Integers, Sequences, FiniteSets, TLC

\* ------------------------------------------------------------------ bounds
MaxStock == 2
MaxQty == 2
MaxReq == 3
MaxRace == 1
MaxRows == 2
MaxAll == 2
MaxChat == 1
MaxGuard == 1
MaxTxn == 1
MaxDisp == 2
MaxDrugs == 4

\* ------------------------------------------------------------ fixed tables
Procs == {1, 2}
Users == {1, 2}
\* the ids a row of drugs can have; the rows that exist are db.drugs
Drugs == 1..MaxDrugs
Items == {1, 2, 3}
Orders == {1, 2}
NoDrug == 0
NoUser == 0
CurrentDate == "2026-10-29"
OtherDate == "2026-10-28"
Status == {"pending", "approved", "rejected", "shipped"}
NoStatus == ""

\* order_items.drug_id: items 1 and 2 are lines of the same drug, item 3 is a
\* custom item (drug_id NULL)
ItemDrug(i) == IF i = 3 THEN NoDrug ELSE 1
\* order_items.seller_id
ItemSeller(i) == IF i = 2 THEN 2 ELSE 1
\* order_items.order_id: order 2 has no items
ItemOrder(i) == 1
\* orders.recipient_id
OrderRecipient(o) == o
\* the rows of drugs before the first request: id, name, batch_no, created_by
InitDrugs == {1, 2}
InitName(x) == IF x = 1 THEN "amoxicillin" ELSE IF x = 2 THEN "ibuprofen" ELSE ""
InitBatch(x) == IF x = 1 THEN "B1" ELSE IF x = 2 THEN "B2" ELSE ""
InitOwner(x) == IF x \in InitDrugs THEN x ELSE NoUser
\* drugs.name and drugs.created_by of row x in the database d
DrugName(d, x) == d.name[x]
DrugOwner(d, x) == d.created_by[x]
\* order_items.quantity when the order was placed
InitQuantity(i) == IF i = 2 THEN MaxQty ELSE 1

VARIABLES db, tx, pc, args, loc, last, nreq, hist, trace

vars == <<db, tx, pc, args, loc, last, nreq, hist, trace>>

\* ------------------------------------------------------------- JavaScript
\* an optional body field is <<>> when absent and <<v>> when sent
Absent == <<>>
\* `if (quantity)`: undefined and 0 are falsy
Truthy(f) == f # Absent /\ f[1] # 0
\* parseInt of a JSON integer
ParseInt(n) == n

\* ------------------------------------------------------------- PostgreSQL
\* the transaction of one request: the rows it holds (written or locked) with
\* the values it sees in them; a value outside the rows held is not used
\* inserted are the rows of drugs it has inserted, types and names those of
\* drug_types and drug_names
NoTx == [state |-> "none", drugs |-> {}, items |-> {}, ids |-> {},
         stock |-> [x \in Drugs |-> 0], status |-> [i \in Items |-> NoStatus],
         quantity |-> [i \in Items |-> 0], rows |-> {},
         inserted |-> {}, types |-> {}, names |-> {}]
\* BEGIN
Begin(t) == IF t.state = "none" THEN [NoTx EXCEPT !.state = "open"] ELSE t
\* a statement of the transaction raised: the transaction is aborted and
\* every later statement but COMMIT and ROLLBACK raises too
Abort(t) == IF t.state = "none" THEN t ELSE [t EXCEPT !.state = "aborted"]
Aborted(t) == t.state = "aborted"

\* column c of the row of drugs with id x that t has inserted, or v
InsertedOr(t, x, c, v) ==
  IF \E r \in t.inserted : r.id = x THEN (CHOOSE r \in t.inserted : r.id = x)[c] ELSE v

\* what the statements of transaction t read: the committed rows, and its own
\* writes in the rows it holds
View(d, t) ==
  [stock |-> [x \in Drugs |-> IF x \in t.drugs THEN t.stock[x] ELSE d.stock[x]],
   status |-> [i \in Items |-> IF i \in t.items THEN t.status[i] ELSE d.status[i]],
   quantity |-> [i \in Items |-> IF i \in t.items THEN t.quantity[i] ELSE d.quantity[i]],
   dds |-> {r \in d.dds : r.id \notin t.ids} \cup t.rows,
   nextId |-> d.nextId,
   drugs |-> d.drugs \cup {r.id : r \in t.inserted},
   name |-> [x \in Drugs |-> InsertedOr(t, x, "name", d.name[x])],
   batch_no |-> [x \in Drugs |-> InsertedOr(t, x, "batch_no", d.batch_no[x])],
   created_by |-> [x \in Drugs |-> InsertedOr(t, x, "created_by", d.created_by[x])],
   nextDrug |-> d.nextDrug,
   drug_types |-> d.drug_types \cup t.types,
   drug_names |-> d.drug_names \cup t.names]
\* the serial of daily_dispensing_summary after the rows of t
NextIdAfter(d, t) ==
  IF \E r \in t.rows : r.id >= d.nextId
    THEN 1 + (CHOOSE n \in {r.id : r \in t.rows} : \A r \in t.rows : r.id <= n)
    ELSE d.nextId
\* COMMIT makes the writes of the transaction the committed database; COMMIT
\* of an aborted transaction is a ROLLBACK
NextDrugAfter(d, t) ==
  IF \E r \in t.inserted : r.id >= d.nextDrug
    THEN 1 + (CHOOSE n \in {r.id : r \in t.inserted} : \A r \in t.inserted : r.id <= n)
    ELSE d.nextDrug
Commit(d, t) ==
  IF t.state = "open"
    THEN [View(d, t) EXCEPT !.nextId = NextIdAfter(d, t), !.nextDrug = NextDrugAfter(d, t)]
    ELSE d
\* ROLLBACK leaves the committed database as it is
Rollback(d, t) == d

\* a row is held from the first statement that writes or locks it to the end
\* of the transaction
HoldItem(d, t, i) ==
  IF i \in t.items THEN t
  ELSE [t EXCEPT !.items = @ \cup {i}, !.status[i] = d.status[i],
                 !.quantity[i] = d.quantity[i]]
HoldDrug(d, t, x) ==
  IF x \in t.drugs THEN t
  ELSE [t EXCEPT !.drugs = @ \cup {x}, !.stock[x] = d.stock[x]]
HoldRow(d, t, id) ==
  IF id \in t.ids THEN t
  ELSE [t EXCEPT !.ids = @ \cup {id}, !.rows = @ \cup {r \in d.dds : r.id = id}]
\* rows held by the open transactions of the other requests: a statement
\* that writes or locks one of them waits
LockedItems(p) == UNION {tx[q].items : q \in Procs \ {p}}
LockedDrugs(p) == UNION {tx[q].drugs : q \in Procs \ {p}}
LockedRows(p) == UNION {tx[q].ids : q \in Procs \ {p}}

\* variant: the SELECT of approve-all without FOR UPDATE locks no row
ForUpdateNone(sel) == [items |-> {}, drugs |-> {}]
\* the rows SELECT .. FOR UPDATE locks: the selected rows of order_items and
\* the rows of drugs joined to them
ForUpdate(sel) == [items |-> sel, drugs |-> {ItemDrug(i) : i \in sel}]
RECURSIVE HoldItems(_, _, _)
HoldItems(d, t, S) ==
  IF S = {} THEN t
  ELSE LET i == CHOOSE x \in S : TRUE IN HoldItems(d, HoldItem(d, t, i), S \ {i})
RECURSIVE HoldDrugs(_, _, _)
HoldDrugs(d, t, S) ==
  IF S = {} THEN t
  ELSE LET x == CHOOSE y \in S : TRUE IN HoldDrugs(d, HoldDrug(d, t, x), S \ {x})

\* UPDATE order_items SET quantity = $1 WHERE id = $2
SetQuantity(d, t, i, q) == [HoldItem(d, t, i) EXCEPT !.quantity[i] = q]
\* UPDATE order_items SET status = $1 WHERE id = $2
SetStatus(d, t, i, s) == [HoldItem(d, t, i) EXCEPT !.status[i] = s]
\* UPDATE drugs SET stock = stock - $1 WHERE id = $2: no row, no write
DeductStock(d, t, drug_id, n) ==
  IF drug_id \in View(d, t).drugs
    THEN [HoldDrug(d, t, drug_id) EXCEPT !.stock[drug_id] = @ - n]
    ELSE t

\* ---------------------------------------------------------------- records
\* one db.query(..) of a request: its statement and whether it succeeded
Sql(s, ok) == [s |-> s, ok |-> ok]

NoArgs == [op |-> "none", caller |-> 0, id |-> 0, status |-> NoStatus, quantity |-> Absent,
           category |-> "", date |-> Absent, role |-> "", query |-> <<>>]
NoItem == [id |-> 0, current_status |-> NoStatus, drug_id |-> NoDrug,
           original_quantity |-> 0, stock |-> 0]
NoAnswer == [ok |-> FALSE, response |-> <<>>]
\* the local variables of a handler; statements are the db.query calls the
\* request has made so far, counted and reported (ghosts) the ids of the order
\* items behind approvedCount and behind the entries of insufficientStockItems,
\* persisted (ghost) whether a COMMIT of the request has changed the database
NoLoc == [item |-> NoItem, rows |-> <<>>, k |-> 0, stock |-> 0, existing |-> <<>>,
          approvedCount |-> 0, insufficientStockItems |-> <<>>,
          counted |-> {}, reported |-> <<>>,
          importedCount |-> 0, errors |-> <<>>, total |-> 0, record |-> Absent,
          addedCount |-> 0, updatedCount |-> 0, drugNamesAdded |-> 0,
          drug |-> NoDrug, err |-> "", persisted |-> FALSE,
          refused |-> [code |-> 0, message |-> ""], statements |-> <<>>,
          answer |-> NoAnswer, sql |-> Absent, invalid |-> Absent, sent |-> <<>>, data |-> "none",
          fetched |-> [array |-> Absent, drugs |-> Absent, expiring_soon |-> Absent,
                       orders |-> Absent, order_items |-> Absent]]
\* a response, with ghost fields: sent are the texts a chatbot request gave to
\* the database, answer and sql what the language model answered and what the
\* validation returned
NoResp == [op |-> "none", code |-> 0, message |-> "", approvedCount |-> 0,
           insufficientStockItems |-> <<>>, totalItems |-> Absent,
           counted |-> {}, reported |-> <<>>,
           imported |-> 0, total |-> 0, errors |-> <<>>, diff |-> Absent,
           added |-> 0, updated |-> 0,
           reply |-> "", data |-> "none", sent |-> <<>>, role |-> "", answer |-> NoAnswer,
           sql |-> Absent, ai |-> "", statements |-> <<>>,
           fetched |-> [array |-> Absent, drugs |-> Absent, expiring_soon |-> Absent,
                        orders |-> Absent, order_items |-> Absent]]
Reply(op, code, message) == [NoResp EXCEPT !.op = op, !.code = code, !.message = message]

NoHist == [valid |-> FALSE, before |-> 0]

\* the databases before the first request: the drug of the order items has any
\* stock up to MaxStock, the other drug has a stock of 1
FreshDbs ==
  {[stock |-> [x \in Drugs |-> IF x = 1 THEN s ELSE IF x \in InitDrugs THEN 1 ELSE 0],
    status |-> [i \in Items |-> "pending"],
    quantity |-> [i \in Items |-> InitQuantity(i)], dds |-> {}, nextId |-> 1,
    drugs |-> InitDrugs, name |-> [x \in Drugs |-> InitName(x)],
    batch_no |-> [x \in Drugs |-> InitBatch(x)],
    created_by |-> [x \in Drugs |-> InitOwner(x)],
    nextDrug |-> 1 + Cardinality(InitDrugs), drug_types |-> {}, drug_names |-> {}] :
      s \in 0..MaxStock}

\* no request is in flight
Idle ==
  /\ tx = [p \in Procs |-> NoTx]
  /\ pc = [p \in Procs |-> "idle"]
  /\ args = [p \in Procs |-> NoArgs]
  /\ loc = [p \in Procs |-> NoLoc]
  /\ last = NoResp
  /\ hist = [i \in Items |-> NoHist]
InitDb ==
  /\ db \in FreshDbs
  /\ Idle
  /\ trace = FALSE

\* one process serves MaxReq requests one after the other
Init == InitDb /\ nreq = [p \in Procs |-> IF p = 1 THEN MaxReq ELSE 0]
\* two processes serve MaxRace requests each, concurrently
InitRace == InitDb /\ nreq = [p \in Procs |-> MaxRace]

\* a process takes the next request when it has none in flight and requests
\* left to serve (nreq); process 2 takes one only while process 1 is busy
Free(p) ==
  /\ pc[p] = "idle"
  /\ nreq[p] > 0
  /\ \A q \in Procs : q < p => pc[q] # "idle"
\* a request behind the role middleware reaches its controller op when the
\* middleware has called next()
Admitted(p, op) == pc[p] = "authorized" /\ args[p].op = op
\* the controller op is entered at the route (via = "route": the model of the
\* controller alone, the caller verified) or behind the middleware
Enter(p, via, op) == IF via = "route" THEN Free(p) ELSE Admitted(p, op)
Take(p) ==
  /\ nreq' = IF pc[p] = "idle" THEN [nreq EXCEPT ![p] = @ - 1] ELSE nreq
  /\ UNCHANGED trace

\* ----------------------------------------------------- the steps of a handler
\* the handler of process p is at label with arguments a and locals l; last
\* is the response sent since the last request was taken
At(p, label, a, l) ==
  /\ pc' = [pc EXCEPT ![p] = label]
  /\ args' = [args EXCEPT ![p] = a]
  /\ loc' = [loc EXCEPT ![p] = l]
  /\ last' = IF pc[p] = "idle" THEN NoResp ELSE last
\* res.json(..): the response r ends the request
Finish(p, r) ==
  /\ pc' = [pc EXCEPT ![p] = "idle"]
  /\ args' = [args EXCEPT ![p] = NoArgs]
  /\ loc' = [loc EXCEPT ![p] = NoLoc]
  /\ last' = r
\* the locals l after the db.query of statement s
Noted(l, s, ok) == IF trace THEN [l EXCEPT !.statements = Append(@, Sql(s, ok))] ELSE l
\* await db.query(s) went through: the handler goes on to `label`
Done(p, s, label, l) == At(p, label, args[p], Noted(l, s, TRUE))
\* await db.query(s) raised: the handler is in its catch block
Raised(p, s) == At(p, "catch", args[p], Noted(loc[p], s, FALSE))
\* an answer with the statements of the request
Answer(p, s, r) == Finish(p, [r EXCEPT !.statements = Noted(loc[p], s, TRUE).statements])
\* the code of a response that is never sent
NoResponse == 0
\* the transaction of p becomes t, the committed database stays
Writes(p, t) == tx' = [tx EXCEPT ![p] = t] /\ UNCHANGED <<db, hist>>

\* ghost: the stock of an item's drug just before the approval that is still
\* in force, valid while nothing else has written that drug's stock
HistAfter(d0, d1) ==
  LET approvedNow == {i \in Items : /\ ItemDrug(i) # NoDrug
                                    /\ d0.status[i] # "approved"
                                    /\ d1.status[i] = "approved"}
  IN [i \in Items |->
        IF i \in approvedNow /\ \A j \in approvedNow : ItemDrug(j) = ItemDrug(i) => j = i
          THEN [valid |-> TRUE, before |-> d0.stock[ItemDrug(i)]]
        ELSE IF d1.status[i] # "approved" THEN NoHist
        ELSE IF ItemDrug(i) # NoDrug /\ d1.stock[ItemDrug(i)] # d0.stock[ItemDrug(i)]
          THEN NoHist
        ELSE hist[i]]
\* COMMIT of p's transaction
Commits(p) ==
  /\ db' = Commit(db, tx[p])
  /\ tx' = [tx EXCEPT ![p] = NoTx]
  /\ hist' = HistAfter(db, Commit(db, tx[p]))
\* ROLLBACK of p's transaction
RollsBack(p) ==
  /\ db' = Rollback(db, tx[p])
  /\ tx' = [tx EXCEPT ![p] = NoTx]
  /\ UNCHANGED hist
\* catch (err) { await db.query("ROLLBACK"); res.status(..).json(..) }: the
\* answer r; when this ROLLBACK raises, the promise of the handler is rejected,
\* no answer is sent and the server ends the transaction with the session
Catch(p, r) ==
  /\ \E fault \in BOOLEAN :
       IF fault
         THEN Finish(p, [Reply(args[p].op, NoResponse, "") EXCEPT
                           !.statements = Noted(loc[p], "ROLLBACK", FALSE).statements])
       ELSE Answer(p, "ROLLBACK", r)
  /\ RollsBack(p)

\* ------------------------------------------------ updateOrderItemStatus
\* variant: the item is looked up by id only
SelectItemAnySeller(d, id, sellerId) ==
  IF id \in Items
    THEN <<[id |-> id, current_status |-> d.status[id], drug_id |-> ItemDrug(id),
            original_quantity |-> d.quantity[id],
            stock |-> IF ItemDrug(id) \in d.drugs THEN d.stock[ItemDrug(id)] ELSE 0]>>
    ELSE <<>>
\* SELECT oi.*, d.stock .. LEFT JOIN drugs d .. WHERE oi.id = $1 AND oi.seller_id = $2;
\* the stock of an item without a row of drugs is NULL, which compares as 0
SelectItem(d, id, sellerId) ==
  IF id \in Items /\ ItemSeller(id) = sellerId
    THEN <<[id |-> id, current_status |-> d.status[id], drug_id |-> ItemDrug(id),
            original_quantity |-> d.quantity[id],
            stock |-> IF ItemDrug(id) \in d.drugs THEN d.stock[ItemDrug(id)] ELSE 0]>>
    ELSE <<>>

NewQuantity(a, item) ==
  IF Truthy(a.quantity) THEN ParseInt(a.quantity[1]) ELSE item.original_quantity

Approving(a, item) ==
  a.status # NoStatus /\ item.drug_id # NoDrug
    /\ a.status = "approved" /\ item.current_status # "approved"

Restoring(a, item) ==
  a.status # NoStatus /\ item.drug_id # NoDrug /\ ~Approving(a, item)
    /\ a.status = "rejected" /\ item.current_status = "approved"

\* variant: the stock check refuses an approval of exactly the available stock
InsufficientOffByOne(a, item) == item.stock <= NewQuantity(a, item)
\* if (item.stock < newQuantity)
Insufficient(a, item) == item.stock < NewQuantity(a, item)

\* variant: the insufficient-stock return sends COMMIT
RefusalCommits == "COMMIT"
\* the statement of the insufficient-stock return
Refusal == "ROLLBACK"

\* the statement after BEGIN, and after each UPDATE of order_items
AfterBegin(a) ==
  IF Truthy(a.quantity) THEN "upd_quantity"
  ELSE IF a.status # NoStatus THEN "upd_status"
  ELSE "upd_commit"
AfterStatus(a, item) ==
  IF Approving(a, item) THEN (IF Insufficient(a, item) THEN "upd_refuse" ELSE "upd_stock")
  ELSE IF Restoring(a, item) THEN "upd_stock"
  ELSE "upd_commit"

\* await db.query(SELECT ..): the ownership read, before the transaction
UpdSelectVia(p, via) ==
  /\ Enter(p, via, "updateOrderItemStatus")
  /\ \E id \in Items, caller \in Users, st \in Status \cup {NoStatus},
        qy \in {Absent} \cup {<<n>> : n \in -1..MaxQty}, fault \in BOOLEAN :
       LET a == [NoArgs EXCEPT !.op = "updateOrderItemStatus", !.caller = caller,
                               !.id = id, !.status = st, !.quantity = qy]
           rows == SelectItem(db, id, caller)
       IN IF fault THEN At(p, "catch", a, Noted(NoLoc, "SELECT", FALSE))
          ELSE IF rows = <<>>
            THEN Finish(p, [Reply(a.op, 404, "Order item not found or unauthorized")
                              EXCEPT !.statements = Noted(NoLoc, "SELECT", TRUE).statements])
          ELSE At(p, "upd_begin", a, Noted([NoLoc EXCEPT !.item = rows[1]], "SELECT", TRUE))
  /\ Take(p)
  /\ UNCHANGED <<db, tx, hist>>

\* await db.query("BEGIN")
UpdBegin(p) ==
  /\ pc[p] = "upd_begin"
  /\ \E fault \in BOOLEAN :
       IF fault THEN Raised(p, "BEGIN") /\ Writes(p, tx[p])
       ELSE Done(p, "BEGIN", AfterBegin(args[p]), loc[p]) /\ Writes(p, Begin(tx[p]))
  /\ UNCHANGED <<nreq, trace>>

\* await db.query(UPDATE order_items SET quantity = $1 ..)
UpdQuantity(p) ==
  /\ pc[p] = "upd_quantity"
  /\ \E fault \in BOOLEAN :
       IF fault \/ Aborted(tx[p]) THEN Raised(p, "UPDATE order_items") /\ Writes(p, Abort(tx[p]))
       ELSE /\ loc[p].item.id \notin LockedItems(p)
            /\ Done(p, "UPDATE order_items",
                    IF args[p].status # NoStatus THEN "upd_status" ELSE "upd_commit", loc[p])
            /\ Writes(p, SetQuantity(db, tx[p], loc[p].item.id,
                                     NewQuantity(args[p], loc[p].item)))
  /\ UNCHANGED <<nreq, trace>>

\* await db.query(UPDATE order_items SET status = $1 ..) and the stock check
UpdStatus(p) ==
  /\ pc[p] = "upd_status"
  /\ \E fault \in BOOLEAN :
       IF fault \/ Aborted(tx[p]) THEN Raised(p, "UPDATE order_items") /\ Writes(p, Abort(tx[p]))
       ELSE /\ loc[p].item.id \notin LockedItems(p)
            /\ Done(p, "UPDATE order_items", AfterStatus(args[p], loc[p].item), loc[p])
            /\ Writes(p, SetStatus(db, tx[p], loc[p].item.id, args[p].status))
  /\ UNCHANGED <<nreq, trace>>

\* await db.query(UPDATE drugs SET stock = stock -/+ $1 ..)
UpdStock(p) ==
  /\ pc[p] = "upd_stock"
  /\ \E fault \in BOOLEAN :
       IF fault \/ Aborted(tx[p]) THEN Raised(p, "UPDATE drugs") /\ Writes(p, Abort(tx[p]))
       ELSE /\ loc[p].item.drug_id \notin LockedDrugs(p)
            /\ Done(p, "UPDATE drugs", "upd_commit", loc[p])
            /\ Writes(p, DeductStock(db, tx[p], loc[p].item.drug_id,
                           IF Approving(args[p], loc[p].item)
                             THEN NewQuantity(args[p], loc[p].item)
                             ELSE 0 - loc[p].item.original_quantity))
  /\ UNCHANGED <<nreq, trace>>

\* await db.query("ROLLBACK") and the insufficient-stock answer
UpdRefuse(p) ==
  /\ pc[p] = "upd_refuse"
  /\ \E fault \in BOOLEAN :
       IF fault THEN Raised(p, Refusal) /\ Writes(p, Abort(tx[p]))
       ELSE /\ Answer(p, Refusal, Reply(args[p].op, 400, "Insufficient stock"))
            /\ IF Refusal = "COMMIT" THEN Commits(p) ELSE RollsBack(p)
  /\ UNCHANGED <<nreq, trace>>

\* await db.query("COMMIT") and the answer
UpdCommit(p) ==
  /\ pc[p] = "upd_commit"
  /\ \E fault \in BOOLEAN :
       IF fault THEN Raised(p, "COMMIT") /\ Writes(p, Abort(tx[p]))
       ELSE /\ Answer(p, "COMMIT", Reply(args[p].op, 200, "Order item updated successfully"))
            /\ Commits(p)
  /\ UNCHANGED <<nreq, trace>>

\* catch (err): await db.query("ROLLBACK") and the 500 answer
UpdCatch(p) ==
  /\ pc[p] = "catch" /\ args[p].op = "updateOrderItemStatus"
  /\ Catch(p, Reply(args[p].op, 500, "Server error while updating order item"))
  /\ UNCHANGED <<nreq, trace>>

\* ------------------------------------------------------- approveAllItems
\* the orders in which a query without ORDER BY may return the rows of S
SeqsOf(S) ==
  {q \in [1..Cardinality(S) -> S] : \A i, j \in 1..Cardinality(S) : q[i] = q[j] => i = j}

\* SELECT .. FROM order_items oi INNER JOIN drugs d .. WHERE oi.order_id = $1
\*   AND oi.status = 'pending' AND (oi.seller_id = $2 OR $2 = recipient) FOR UPDATE
PendingItems(d, orderId, sellerId) ==
  {i \in Items : /\ ItemOrder(i) = orderId
                 /\ ItemDrug(i) \in d.drugs
                 /\ d.status[i] = "pending"
                 /\ (ItemSeller(i) = sellerId \/ sellerId = OrderRecipient(orderId))}
PendingRow(d, i) ==
  [id |-> i, drug_id |-> ItemDrug(i), quantity |-> d.quantity[i],
   stock |-> d.stock[ItemDrug(i)], drug_name |-> DrugName(d, ItemDrug(i))]

\* Number(x) || 0
NumberOrZero(n) == IF n = 0 THEN 0 ELSE n

Entry(row, reason) ==
  [drug_name |-> row.drug_name, requested |-> row.quantity,
   available |-> NumberOrZero(row.stock), reason |-> reason]

\* if (availableStock >= requestedQuantity)
Sufficient(row) == NumberOrZero(row.stock) >= row.quantity

\* approvedCount++ comes after the UPDATE of drugs
CountedAfter(s) == s = "UPDATE drugs"
Tally(l, row, s) ==
  IF CountedAfter(s)
    THEN [l EXCEPT !.approvedCount = @ + 1, !.counted = @ \cup {row.id}]
    ELSE l
\* insufficientStockItems.push({.., reason})
Listed(l, row, reason) ==
  [l EXCEPT !.insufficientStockItems = Append(@, Entry(row, reason)),
            !.reported = Append(@, row.id)]

\* the loop from rows[k] up to its next await: the rows with too little stock
\* are listed, the first row with enough stock is next to be approved, and
\* COMMIT follows the last row
RECURSIVE LoopFrom(_, _)
LoopFrom(l, k) ==
  IF k > Len(l.rows) THEN [label |-> "aa_commit", loc |-> [l EXCEPT !.k = k]]
  ELSE IF Sufficient(l.rows[k]) THEN [label |-> "aa_item", loc |-> [l EXCEPT !.k = k]]
  ELSE LoopFrom(Listed(l, l.rows[k], "Insufficient stock"), k + 1)
\* the inner catch block: the item is listed and the loop goes on
Caught(l) == LoopFrom(Listed(l, l.rows[l.k], "Database error during approval"), l.k + 1)

\* await db.query("BEGIN")
ApproveAllBeginVia(p, via) ==
  /\ Enter(p, via, "approveAllItems")
  /\ \E orderId \in Orders, caller \in Users, fault \in BOOLEAN :
       LET a == [NoArgs EXCEPT !.op = "approveAllItems", !.caller = caller, !.id = orderId]
       IN IF fault THEN At(p, "catch", a, Noted(NoLoc, "BEGIN", FALSE)) /\ Writes(p, tx[p])
          ELSE At(p, "aa_select", a, Noted(NoLoc, "BEGIN", TRUE)) /\ Writes(p, Begin(tx[p]))
  /\ Take(p)

\* await db.query(SELECT .. FOR UPDATE): waits while another transaction holds
\* a row it selects
ApproveAllSelect(p) ==
  /\ pc[p] = "aa_select"
  /\ \E fault \in BOOLEAN :
       LET v == View(db, tx[p])
           sel == PendingItems(v, args[p].id, args[p].caller)
           lock == ForUpdate(sel)
       IN IF fault \/ Aborted(tx[p]) THEN Raised(p, "SELECT") /\ Writes(p, Abort(tx[p]))
          ELSE /\ lock.items \cap LockedItems(p) = {}
               /\ lock.drugs \cap LockedDrugs(p) = {}
               /\ Writes(p, HoldDrugs(db, HoldItems(db, tx[p], lock.items), lock.drugs))
               /\ IF sel = {} THEN Done(p, "SELECT", "aa_empty", loc[p])
                  ELSE \E q \in SeqsOf(sel) :
                         LET next == LoopFrom([loc[p] EXCEPT !.rows =
                                         [k \in 1..Len(q) |-> PendingRow(v, q[k])]], 1)
                         IN Done(p, "SELECT", next.label, next.loc)
  /\ UNCHANGED <<nreq, trace>>

\* await db.query("ROLLBACK") and the answer of a call that found no item
ApproveAllEmpty(p) ==
  /\ pc[p] = "aa_empty"
  /\ \E fault \in BOOLEAN :
       IF fault THEN Raised(p, "ROLLBACK") /\ Writes(p, Abort(tx[p]))
       ELSE /\ Answer(p, "ROLLBACK",
                      Reply(args[p].op, 200, "No pending items found for this order"))
            /\ RollsBack(p)
  /\ UNCHANGED <<nreq, trace>>

\* await db.query(UPDATE order_items SET status = 'approved' ..) for rows[k]
ApproveAllItem(p) ==
  /\ pc[p] = "aa_item"
  /\ \E fault \in BOOLEAN :
       LET row == loc[p].rows[loc[p].k]
           s == "UPDATE order_items"
       IN IF fault \/ Aborted(tx[p])
            THEN /\ At(p, Caught(loc[p]).label, args[p], Noted(Caught(loc[p]).loc, s, FALSE))
                 /\ Writes(p, Abort(tx[p]))
          ELSE /\ row.id \notin LockedItems(p)
               /\ Done(p, s, "aa_stock", Tally(loc[p], row, s))
               /\ Writes(p, SetStatus(db, tx[p], row.id, "approved"))
  /\ UNCHANGED <<nreq, trace>>

\* await db.query(UPDATE drugs SET stock = stock - $1 ..) for rows[k]
ApproveAllStock(p) ==
  /\ pc[p] = "aa_stock"
  /\ \E fault \in BOOLEAN :
       LET row == loc[p].rows[loc[p].k]
           s == "UPDATE drugs"
           next == LoopFrom(Tally(loc[p], row, s), loc[p].k + 1)
       IN IF fault \/ Aborted(tx[p])
            THEN /\ At(p, Caught(loc[p]).label, args[p], Noted(Caught(loc[p]).loc, s, FALSE))
                 /\ Writes(p, Abort(tx[p]))
          ELSE /\ row.drug_id \notin LockedDrugs(p)
               /\ Done(p, s, next.label, next.loc)
               /\ Writes(p, DeductStock(db, tx[p], row.drug_id, row.quantity))
  /\ UNCHANGED <<nreq, trace>>

\* await db.query("COMMIT") and the answer
ApproveAllCommit(p) ==
  /\ pc[p] = "aa_commit"
  /\ \E fault \in BOOLEAN :
       IF fault THEN Raised(p, "COMMIT") /\ Writes(p, Abort(tx[p]))
       ELSE /\ Answer(p, "COMMIT",
                      [Reply(args[p].op, 200, "Approved") EXCEPT
                         !.approvedCount = loc[p].approvedCount,
                         !.insufficientStockItems = loc[p].insufficientStockItems,
                         !.totalItems = <<Len(loc[p].rows)>>,
                         !.counted = loc[p].counted,
                         !.reported = loc[p].reported])
            /\ Commits(p)
  /\ UNCHANGED <<nreq, trace>>

\* catch (err): await db.query("ROLLBACK") and the 500 answer
ApproveAllCatch(p) ==
  /\ pc[p] = "catch" /\ args[p].op = "approveAllItems"
  /\ Catch(p, Reply(args[p].op, 500, "Server error while approving items"))
  /\ UNCHANGED <<nreq, trace>>

\* ------------------------------------------------- recordDailyDispensing
\* x || y on an optional text field
OrElse(f, dflt) == IF f = Absent \/ f[1] = "" THEN dflt ELSE f[1]

\* SELECT id, name, stock FROM drugs WHERE id = $1 AND created_by = $2
DrugCheck(d, drug_id, userId) ==
  IF drug_id \in d.drugs /\ DrugOwner(d, drug_id) = userId
    THEN <<[id |-> drug_id, stock |-> d.stock[drug_id]]>>
    ELSE <<>>

\* SELECT id, quantity_dispensed FROM daily_dispensing_summary
\*   WHERE drug_id = $1 AND dispensing_date = $2 AND category = $3
ExistingRecord(d, drug_id, date, category) ==
  {r \in d.dds : r.drug_id = drug_id /\ r.dispensing_date = date /\ r.category = category}

\* variant: the table has no unique index
UniqueViolationNever(d, drug_id, date, category) == FALSE
\* the unique index on (drug_id, dispensing_date, category) refuses the row
\* (err.code === '23505')
UniqueViolation(d, drug_id, date, category) == ExistingRecord(d, drug_id, date, category) # {}
\* an INSERT waits while another transaction has inserted or deleted, and not
\* yet committed, a row of its key
KeyBusy(p, drug_id, date, category) ==
  \E q \in Procs \ {p} :
    \/ ExistingRecord([dds |-> tx[q].rows], drug_id, date, category) # {}
    \/ \E r \in ExistingRecord(db, drug_id, date, category) : r.id \in tx[q].ids
\* the next value of the serial that no open transaction has taken
FreshId ==
  LET used == UNION {{r.id : r \in tx[q].rows} : q \in Procs}
  IN CHOOSE n \in db.nextId..(db.nextId + Cardinality(used)) :
       n \notin used /\ \A m \in db.nextId..(n - 1) : m \in used

\* INSERT INTO daily_dispensing_summary (..) VALUES (..), the id taken from the serial
InsertSummary(t, id, drug_id, quantity, date, category) ==
  [t EXCEPT !.ids = @ \cup {id},
            !.rows = @ \cup {[id |-> id, drug_id |-> drug_id, quantity_dispensed |-> quantity,
                              dispensing_date |-> date, category |-> category]}]
\* UPDATE daily_dispensing_summary SET quantity_dispensed = $1 WHERE id = $3
UpdateSummary(d, t, id, quantity) ==
  IF \A r \in View(d, t).dds : r.id # id THEN t
  ELSE [HoldRow(d, t, id) EXCEPT
          !.rows = {IF r.id = id THEN [r EXCEPT !.quantity_dispensed = quantity] ELSE r
                      : r \in @}]
\* DELETE FROM daily_dispensing_summary WHERE id = $1
DeleteSummary(d, t, id) ==
  IF \A r \in View(d, t).dds : r.id # id THEN t
  ELSE [HoldRow(d, t, id) EXCEPT !.rows = {r \in @ : r.id # id}]

\* the bodies and callers of record-dispensing requests
RecordRequests ==
  [drug_id : Drugs, caller : Users, quantity_dispensed : -1..MaxQty,
   dispensing_date : {Absent, <<CurrentDate>>, <<OtherDate>>},
   category : {Absent, <<"IPD">>}]

\* variant: every request is taken as one for the current date
requestedDateAny(dispensing_date) == CurrentDate
\* const requestedDate = dispensing_date || currentDate
requestedDate(dispensing_date) == OrElse(dispensing_date, CurrentDate)

\* variant: the first stock check is left out
RecordInsufficientNever(stock, quantity_dispensed) == FALSE
\* if (drug.stock < quantity_dispensed)
RecordInsufficient(stock, quantity_dispensed) == stock < quantity_dispensed

\* variant: the update path deducts the whole quantity
quantityDifferenceFull(quantity_dispensed, existing) == quantity_dispensed
\* const quantityDifference = quantity_dispensed - existing.quantity_dispensed
quantityDifference(quantity_dispensed, existing) ==
  quantity_dispensed - existing.quantity_dispensed

\* a validation has failed after BEGIN: ROLLBACK is next, then the answer
Refused(p, s, code, message) ==
  Done(p, s, "refuse", [loc[p] EXCEPT !.refused = [code |-> code, message |-> message]])

\* the date check and await db.query('BEGIN'), for a request of `requests`
RecBeginFrom(p, via, requests) ==
  /\ Enter(p, via, "recordDailyDispensing")
  /\ \E rq \in requests, fault \in BOOLEAN :
       LET a == [NoArgs EXCEPT !.op = "recordDailyDispensing", !.caller = rq.caller,
                               !.id = rq.drug_id, !.quantity = <<rq.quantity_dispensed>>,
                               !.date = rq.dispensing_date,
                               !.category = OrElse(rq.category, "OPD")]
       IN IF requestedDate(rq.dispensing_date) # CurrentDate
            THEN /\ Finish(p, Reply(a.op, 400, "Entries can only be made for the current date"))
                 /\ Writes(p, tx[p])
          ELSE IF fault THEN At(p, "catch", a, Noted(NoLoc, "BEGIN", FALSE)) /\ Writes(p, tx[p])
          ELSE At(p, "rec_drug", a, Noted(NoLoc, "BEGIN", TRUE)) /\ Writes(p, Begin(tx[p]))
  /\ Take(p)
RecBeginVia(p, via) == RecBeginFrom(p, via, RecordRequests)

\* await db.query(SELECT id, name, stock FROM drugs ..) and the stock check
RecDrug(p) ==
  /\ pc[p] = "rec_drug"
  /\ \E fault \in BOOLEAN :
       LET drugCheck == DrugCheck(View(db, tx[p]), args[p].id, args[p].caller)
       IN IF fault \/ Aborted(tx[p]) THEN Raised(p, "SELECT") /\ Writes(p, Abort(tx[p]))
          ELSE /\ Writes(p, tx[p])
               /\ IF drugCheck = <<>>
                    THEN Refused(p, "SELECT", 404, "Drug not found in your inventory")
                  ELSE IF RecordInsufficient(drugCheck[1].stock, args[p].quantity[1])
                    THEN Refused(p, "SELECT", 400, "Insufficient stock")
                  ELSE Done(p, "SELECT", "rec_existing",
                            [loc[p] EXCEPT !.stock = drugCheck[1].stock])
  /\ UNCHANGED <<nreq, trace>>

\* await db.query(SELECT id, quantity_dispensed FROM daily_dispensing_summary ..)
\* and the stock check of the update path
RecExisting(p) ==
  /\ pc[p] = "rec_existing"
  /\ LET a == args[p]
         S == ExistingRecord(View(db, tx[p]), a.id, CurrentDate, a.category)
     IN \E fault \in BOOLEAN, e \in IF S = {} THEN {<<>>} ELSE {<<r>> : r \in S} :
          IF fault \/ Aborted(tx[p]) THEN Raised(p, "SELECT") /\ Writes(p, Abort(tx[p]))
          ELSE /\ Writes(p, tx[p])
               /\ IF e # <<>> /\ loc[p].stock < quantityDifference(a.quantity[1], e[1])
                    THEN Refused(p, "SELECT", 400, "Insufficient stock for update")
                  ELSE Done(p, "SELECT", "rec_summary", [loc[p] EXCEPT !.existing = e])
  /\ UNCHANGED <<nreq, trace>>

\* await db.query(UPDATE daily_dispensing_summary ..) of the update path, or
\* await db.query(INSERT INTO daily_dispensing_summary ..)
RecSummary(p) ==
  /\ pc[p] = "rec_summary"
  /\ LET a == args[p]
         e == loc[p].existing
         s == IF e # <<>> THEN "UPDATE summary" ELSE "INSERT summary"
     IN \E fault \in BOOLEAN :
          IF fault \/ Aborted(tx[p]) THEN Raised(p, s) /\ Writes(p, Abort(tx[p]))
          ELSE IF e # <<>>
            THEN /\ e[1].id \notin LockedRows(p)
                 /\ Done(p, s, "rec_stock", loc[p])
                 /\ Writes(p, UpdateSummary(db, tx[p], e[1].id, a.quantity[1]))
          ELSE /\ ~KeyBusy(p, a.id, CurrentDate, a.category)
               /\ IF UniqueViolation(View(db, tx[p]), a.id, CurrentDate, a.category)
                    THEN /\ At(p, "catch", a, Noted([loc[p] EXCEPT !.err = "23505"], s, FALSE))
                         /\ Writes(p, Abort(tx[p]))
                  ELSE /\ Done(p, s, "rec_stock", loc[p])
                       /\ Writes(p, InsertSummary(tx[p], FreshId, a.id, a.quantity[1],
                                                  CurrentDate, a.category))
  /\ UNCHANGED <<nreq, trace>>

\* await db.query(UPDATE drugs SET stock = stock - $1 ..)
RecStock(p) ==
  /\ pc[p] = "rec_stock"
  /\ LET a == args[p]
         e == loc[p].existing
         n == IF e # <<>> THEN quantityDifference(a.quantity[1], e[1]) ELSE a.quantity[1]
     IN \E fault \in BOOLEAN :
          IF fault \/ Aborted(tx[p]) THEN Raised(p, "UPDATE drugs") /\ Writes(p, Abort(tx[p]))
          ELSE /\ a.id \notin LockedDrugs(p)
               /\ Done(p, "UPDATE drugs", "rec_commit", loc[p])
               /\ Writes(p, DeductStock(db, tx[p], a.id, n))
  /\ UNCHANGED <<nreq, trace>>

\* await db.query('COMMIT')
RecCommit(p) ==
  /\ pc[p] = "rec_commit"
  /\ \E fault \in BOOLEAN :
       IF fault THEN Raised(p, "COMMIT") /\ Writes(p, Abort(tx[p]))
       ELSE /\ Done(p, "COMMIT", "rec_updated",
                    [loc[p] EXCEPT !.persisted = Commit(db, tx[p]) # db])
            /\ Commits(p)
  /\ UNCHANGED <<nreq, trace>>

\* SELECT stock FROM drugs WHERE id = $1
UpdatedDrug(d, drug_id) ==
  IF drug_id \in d.drugs THEN <<[stock |-> d.stock[drug_id]]>> ELSE <<>>
\* await db.query('SELECT stock FROM drugs WHERE id = $1') and the answer;
\* updatedDrug.rows[0].stock raises a TypeError when the row of the drug is
\* gone, and the handler is in its catch block after its COMMIT
RecUpdated(p) ==
  /\ pc[p] = "rec_updated"
  /\ LET a == args[p]
         e == loc[p].existing
         updatedDrug == UpdatedDrug(View(db, tx[p]), a.id)
     IN \E fault \in BOOLEAN :
          IF fault THEN Raised(p, "SELECT")
          ELSE IF updatedDrug = <<>>
            THEN At(p, "catch", a, Noted(loc[p], "SELECT", TRUE))
          ELSE Answer(p, "SELECT",
                      [Reply(a.op, 200, IF e # <<>> THEN "Dispensing record updated successfully"
                                        ELSE "Dispensing recorded successfully")
                         EXCEPT !.diff = IF e # <<>>
                                           THEN <<quantityDifference(a.quantity[1], e[1])>>
                                           ELSE Absent])
  /\ Writes(p, tx[p])
  /\ UNCHANGED <<nreq, trace>>

\* await db.query('ROLLBACK') and the answer of a failed validation, in
\* recordDailyDispensing and in deleteDispensingRecord
Refuse(p) ==
  /\ pc[p] = "refuse"
  /\ \E fault \in BOOLEAN :
       IF fault THEN Raised(p, "ROLLBACK") /\ Writes(p, Abort(tx[p]))
       ELSE /\ Answer(p, "ROLLBACK", Reply(args[p].op, loc[p].refused.code,
                                           loc[p].refused.message))
            /\ RollsBack(p)
  /\ UNCHANGED <<nreq, trace>>

\* catch (err): await db.query('ROLLBACK'), the 409 answer to a unique
\* violation and the 500 answer
RecCatch(p) ==
  /\ pc[p] = "catch" /\ args[p].op = "recordDailyDispensing"
  /\ Catch(p, IF loc[p].err = "23505"
              THEN Reply(args[p].op, 409,
                         "A dispensing record already exists for this drug and category today")
              ELSE Reply(args[p].op, 500, "Server error while recording dispensing"))
  /\ UNCHANGED <<nreq, trace>>

\* ------------------------------------------------ deleteDispensingRecord
\* SELECT dds.quantity_dispensed, dds.drug_id FROM daily_dispensing_summary dds
\*   JOIN drugs d ON dds.drug_id = d.id WHERE dds.id = $1 AND d.created_by = $2
RecordResult(d, id, userId) ==
  {r \in d.dds : r.id = id /\ r.drug_id \in d.drugs /\ DrugOwner(d, r.drug_id) = userId}

\* variant: the delete gives nothing back
RestoredNothing(record) == 0
\* UPDATE drugs SET stock = stock + $1: [record.quantity_dispensed, ..]
Restored(record) == record.quantity_dispensed

\* await db.query('BEGIN'), for a caller of `callers`
DelBeginFrom(p, via, callers) ==
  /\ Enter(p, via, "deleteDispensingRecord")
  /\ \E id \in 1..db.nextId, caller \in callers, fault \in BOOLEAN :
       LET a == [NoArgs EXCEPT !.op = "deleteDispensingRecord", !.caller = caller, !.id = id]
       IN IF fault THEN At(p, "catch", a, Noted(NoLoc, "BEGIN", FALSE)) /\ Writes(p, tx[p])
          ELSE At(p, "del_select", a, Noted(NoLoc, "BEGIN", TRUE)) /\ Writes(p, Begin(tx[p]))
  /\ Take(p)
DelBeginVia(p, via) == DelBeginFrom(p, via, Users)

\* await db.query(SELECT dds.quantity_dispensed, dds.drug_id ..)
DelSelect(p) ==
  /\ pc[p] = "del_select"
  /\ LET S == RecordResult(View(db, tx[p]), args[p].id, args[p].caller)
     IN \E fault \in BOOLEAN, e \in IF S = {} THEN {<<>>} ELSE {<<r>> : r \in S} :
          IF fault \/ Aborted(tx[p]) THEN Raised(p, "SELECT") /\ Writes(p, Abort(tx[p]))
          ELSE /\ Writes(p, tx[p])
               /\ IF e = <<>>
                    THEN Refused(p, "SELECT", 404, "Record not found or not authorized")
                  ELSE Done(p, "SELECT", "del_stock", [loc[p] EXCEPT !.existing = e])
  /\ UNCHANGED <<nreq, trace>>

\* await db.query(UPDATE drugs SET stock = stock + $1 ..)
DelStock(p) ==
  /\ pc[p] = "del_stock"
  /\ LET record == loc[p].existing[1]
     IN \E fault \in BOOLEAN :
          IF fault \/ Aborted(tx[p]) THEN Raised(p, "UPDATE drugs") /\ Writes(p, Abort(tx[p]))
          ELSE /\ record.drug_id \notin LockedDrugs(p)
               /\ Done(p, "UPDATE drugs", "del_delete", loc[p])
               /\ Writes(p, DeductStock(db, tx[p], record.drug_id, 0 - Restored(record)))
  /\ UNCHANGED <<nreq, trace>>

\* await db.query('DELETE FROM daily_dispensing_summary WHERE id = $1')
DelDelete(p) ==
  /\ pc[p] = "del_delete"
  /\ \E fault \in BOOLEAN :
       IF fault \/ Aborted(tx[p]) THEN Raised(p, "DELETE summary") /\ Writes(p, Abort(tx[p]))
       ELSE /\ args[p].id \notin LockedRows(p)
            /\ Done(p, "DELETE summary", "del_commit", loc[p])
            /\ Writes(p, DeleteSummary(db, tx[p], args[p].id))
  /\ UNCHANGED <<nreq, trace>>

\* await db.query('COMMIT') and the answer
DelCommit(p) ==
  /\ pc[p] = "del_commit"
  /\ \E fault \in BOOLEAN :
       IF fault THEN Raised(p, "COMMIT") /\ Writes(p, Abort(tx[p]))
       ELSE /\ Answer(p, "COMMIT",
                      Reply(args[p].op, 200,
                            "Dispensing record deleted and stock restored successfully"))
            /\ Commits(p)
  /\ UNCHANGED <<nreq, trace>>

\* catch (err): await db.query('ROLLBACK') and the 500 answer
DelCatch(p) ==
  /\ pc[p] = "catch" /\ args[p].op = "deleteDispensingRecord"
  /\ Catch(p, Reply(args[p].op, 500, "Server error while deleting dispensing record"))
  /\ UNCHANGED <<nreq, trace>>

\* ----------------------------------------------- importDispensingRecords
\* a destructuring default applies to an absent field only
OrDefault(f, dflt) == IF f = Absent THEN dflt ELSE f[1]

\* the texts a CSV cell holds in this model, and what trim(), LOWER() and
\* parseInt() make of them; <<>> stands for NaN
Trim(t) ==
  IF t = "Amoxicillin " THEN "Amoxicillin" ELSE IF t = "syrup " THEN "syrup" ELSE t
Lower(t) == IF t = "Amoxicillin" THEN "amoxicillin" ELSE t
ParseIntText(t) ==
  CASE t = "0" -> <<0>> [] t = "1" -> <<1>> [] t = "2" -> <<2>> [] t = "-1" -> <<0 - 1>>
    [] OTHER -> <<>>
IsNaN(n) == n = <<>>

CsvRecords ==
  {[drug_name |-> "", quantity_dispensed |-> "1"],
   [drug_name |-> "ibuprofen", quantity_dispensed |-> "abc"],
   [drug_name |-> "Amoxicillin ", quantity_dispensed |-> "0"],
   [drug_name |-> "Amoxicillin ", quantity_dispensed |-> "1"],
   [drug_name |-> "Amoxicillin ", quantity_dispensed |-> "2"],
   [drug_name |-> "ibuprofen", quantity_dispensed |-> "1"]}
CsvFiles == UNION {[1..n -> CsvRecords] : n \in 0..MaxRows}

\* SELECT id, name, stock FROM drugs WHERE LOWER(name) = LOWER($1) AND created_by = $2
DrugResult(d, name, userId) ==
  {x \in d.drugs : Lower(DrugName(d, x)) = Lower(name) /\ DrugOwner(d, x) = userId}

\* errors.push(`Row ${index + 1}: ..`)
RowError(l, k, reason) ==
  [l EXCEPT !.errors = Append(@, [row |-> k, reason |-> reason])]


\* the loop from results[k] up to its next await: rows without a field or a
\* positive quantity are put down in errors, the first other row is next to be
\* looked up, and COMMIT follows the last row
RECURSIVE ImportFrom(_, _)
ImportFrom(l, k) ==
  IF k > Len(l.rows) THEN [label |-> "imp_commit", loc |-> [l EXCEPT !.k = k]]
  ELSE LET record == l.rows[k]
           quantity == ParseIntText(record.quantity_dispensed)
       IN IF record.drug_name = "" \/ record.quantity_dispensed = ""
            THEN ImportFrom(RowError(l, k, "Missing required fields"), k + 1)
          ELSE IF IsNaN(quantity) \/ quantity[1] <= 0
            THEN ImportFrom(RowError(l, k, "Invalid quantity"), k + 1)
          ELSE [label |-> "imp_drug", loc |-> [l EXCEPT !.k = k]]
\* `continue` after errors.push(..)
Skipped(p, s, reason) ==
  LET next == ImportFrom(RowError(loc[p], loc[p].k, reason), loc[p].k + 1)
  IN Done(p, s, next.label, next.loc)
\* catch (rowError): the statement s of the row raised
RowFailed(p, s) ==
  LET next == ImportFrom(RowError(loc[p], loc[p].k, "Database error"), loc[p].k + 1)
  IN /\ At(p, next.label, args[p], Noted(next.loc, s, FALSE))
     /\ Writes(p, Abort(tx[p]))
\* const quantity = parseInt(quantity_dispensed) of results[k]
Quantity(l) == ParseIntText(l.rows[l.k].quantity_dispensed)[1]

\* the callers, bodies and files of import requests
ImportRequests ==
  [caller : Users, dispensing_date : {Absent, <<CurrentDate>>, <<OtherDate>>},
   file : BOOLEAN, category : {Absent, <<"IPD">>}, results : CsvFiles]
\* how fs.createReadStream(path).pipe(csv()) ends: the parser emits "end"
\* (parsed), the parser emits "error", which rejects the promise, or the file
\* stream emits "error" (unreadable), which nothing listens to: the promise
\* is never settled and the handler never resumes
StreamOutcomes == {"parsed", "parser_error", "unreadable"}
\* the request stops where it is: no statement, no response
Stops(p, a) == Finish(p, Reply(a.op, NoResponse, ""))
\* the checks of an import, and the parse of the file, for a request of `requests`
ImportBeginFrom(p, via, requests) ==
  /\ Enter(p, via, "importDispensingRecords")
  /\ \E rq \in requests, stream \in StreamOutcomes :
       LET a == [NoArgs EXCEPT !.op = "importDispensingRecords", !.caller = rq.caller,
                               !.date = rq.dispensing_date,
                               !.category = OrDefault(rq.category, "OPD")]
       IN IF OrDefault(rq.dispensing_date, CurrentDate) # CurrentDate
            THEN Finish(p, Reply(a.op, 400, "Entries can only be imported for the current date"))
          ELSE IF ~rq.file
            THEN Finish(p, Reply(a.op, 400, "No CSV file uploaded"))
          ELSE IF stream = "unreadable" THEN Stops(p, a)
          ELSE IF stream = "parser_error" THEN At(p, "catch", a, NoLoc)
          ELSE At(p, "imp_begin", a, [NoLoc EXCEPT !.rows = rq.results,
                                                   !.total = Len(rq.results)])
  /\ Take(p)
  /\ Writes(p, tx[p])
ImportBeginVia(p, via) == ImportBeginFrom(p, via, ImportRequests)

\* await db.query('BEGIN')
ImportBegin(p) ==
  /\ pc[p] = "imp_begin"
  /\ \E fault \in BOOLEAN :
       IF fault THEN Raised(p, "BEGIN") /\ Writes(p, tx[p])
       ELSE /\ Done(p, "BEGIN", ImportFrom(loc[p], 1).label, ImportFrom(loc[p], 1).loc)
            /\ Writes(p, Begin(tx[p]))
  /\ UNCHANGED <<nreq, trace>>

\* await db.query(SELECT id, name, stock FROM drugs WHERE LOWER(name) = ..)
\* and the stock check
ImportDrug(p) ==
  /\ pc[p] = "imp_drug"
  /\ LET l == loc[p]
         S == DrugResult(View(db, tx[p]), Trim(l.rows[l.k].drug_name), args[p].caller)
     IN \E fault \in BOOLEAN, x \in IF S = {} THEN {NoDrug} ELSE S :
          IF fault \/ Aborted(tx[p]) THEN RowFailed(p, "SELECT")
          ELSE /\ Writes(p, tx[p])
               /\ IF x = NoDrug THEN Skipped(p, "SELECT", "Drug not found in your inventory")
                  ELSE IF View(db, tx[p]).stock[x] < Quantity(l)
                    THEN Skipped(p, "SELECT", "Insufficient stock")
                  ELSE Done(p, "SELECT", "imp_existing",
                            [l EXCEPT !.drug = x, !.stock = View(db, tx[p]).stock[x]])
  /\ UNCHANGED <<nreq, trace>>

\* await db.query(SELECT id, quantity_dispensed FROM daily_dispensing_summary ..)
\* and the stock check of the update path
ImportExisting(p) ==
  /\ pc[p] = "imp_existing"
  /\ LET l == loc[p]
         S == ExistingRecord(View(db, tx[p]), l.drug, CurrentDate, args[p].category)
     IN \E fault \in BOOLEAN, e \in IF S = {} THEN {<<>>} ELSE {<<r>> : r \in S} :
          IF fault \/ Aborted(tx[p]) THEN RowFailed(p, "SELECT")
          ELSE /\ Writes(p, tx[p])
               /\ IF e # <<>> /\ l.stock < quantityDifference(Quantity(l), e[1])
                    THEN Skipped(p, "SELECT", "Insufficient stock for update")
                  ELSE Done(p, "SELECT", "imp_summary", [l EXCEPT !.existing = e])
  /\ UNCHANGED <<nreq, trace>>

\* await db.query(UPDATE daily_dispensing_summary ..) of the update path, or
\* await db.query(INSERT INTO daily_dispensing_summary ..)
ImportSummary(p) ==
  /\ pc[p] = "imp_summary"
  /\ LET l == loc[p]
         e == l.existing
         s == IF e # <<>> THEN "UPDATE summary" ELSE "INSERT summary"
     IN \E fault \in BOOLEAN :
          IF fault \/ Aborted(tx[p]) THEN RowFailed(p, s)
          ELSE IF e # <<>>
            THEN /\ e[1].id \notin LockedRows(p)
                 /\ Done(p, s, "imp_stock", l)
                 /\ Writes(p, UpdateSummary(db, tx[p], e[1].id, Quantity(l)))
          ELSE /\ ~KeyBusy(p, l.drug, CurrentDate, args[p].category)
               /\ IF UniqueViolation(View(db, tx[p]), l.drug, CurrentDate, args[p].category)
                    THEN RowFailed(p, s)
                  ELSE /\ Done(p, s, "imp_stock", l)
                       /\ Writes(p, InsertSummary(tx[p], FreshId, l.drug, Quantity(l),
                                                  CurrentDate, args[p].category))
  /\ UNCHANGED <<nreq, trace>>

\* await db.query(UPDATE drugs SET stock = stock - $1 ..) and importedCount++
ImportStock(p) ==
  /\ pc[p] = "imp_stock"
  /\ LET l == loc[p]
         e == l.existing
         n == IF e # <<>> THEN quantityDifference(Quantity(l), e[1]) ELSE Quantity(l)
         next == ImportFrom([l EXCEPT !.importedCount = @ + 1, !.existing = <<>>,
                                      !.drug = NoDrug, !.stock = 0], l.k + 1)
     IN \E fault \in BOOLEAN :
          IF fault \/ Aborted(tx[p]) THEN RowFailed(p, "UPDATE drugs")
          ELSE /\ l.drug \notin LockedDrugs(p)
               /\ Done(p, "UPDATE drugs", next.label, next.loc)
               /\ Writes(p, DeductStock(db, tx[p], l.drug, n))
  /\ UNCHANGED <<nreq, trace>>

\* await db.query('COMMIT'), fs.unlinkSync(req.file.path) and the answer
ImportCommit(p) ==
  /\ pc[p] = "imp_commit"
  /\ \E fault \in BOOLEAN, unlinked \in BOOLEAN :
       IF fault THEN Raised(p, "COMMIT") /\ Writes(p, Abort(tx[p]))
       ELSE /\ Commits(p)
            /\ IF unlinked
                 THEN Answer(p, "COMMIT",
                             [Reply(args[p].op, 200, "Import completed") EXCEPT
                                !.imported = loc[p].importedCount,
                                !.total = loc[p].total,
                                !.errors = loc[p].errors])
                 ELSE Done(p, "COMMIT", "catch",
                           [loc[p] EXCEPT !.persisted = Commit(db, tx[p]) # db])
  /\ UNCHANGED <<nreq, trace>>

\* catch (err): await db.query('ROLLBACK'), and `fs` of the try block is not
\* defined here: no response is sent
ImportCatch(p) ==
  /\ pc[p] = "catch" /\ args[p].op = "importDispensingRecords"
  /\ Catch(p, Reply(args[p].op, NoResponse, ""))
  /\ UNCHANGED <<nreq, trace>>
\* ------------------------------------------------------- JavaScript strings
\* a text is the sequence of its characters, each a string of length one
LowerLetters ==
  <<"a", "b", "c", "d", "e", "f", "g", "h", "i", "j", "k", "l", "m",
    "n", "o", "p", "q", "r", "s", "t", "u", "v", "w", "x", "y", "z">>
UpperLetters ==
  <<"A", "B", "C", "D", "E", "F", "G", "H", "I", "J", "K", "L", "M",
    "N", "O", "P", "Q", "R", "S", "T", "U", "V", "W", "X", "Y", "Z">>
Digits == {"0", "1", "2", "3", "4", "5", "6", "7", "8", "9"}
Whitespace == {" ", "\n"}
IsLower(c) == \E i \in 1..26 : LowerLetters[i] = c
IsUpper(c) == \E i \in 1..26 : UpperLetters[i] = c
UpperChar(c) == IF IsLower(c) THEN UpperLetters[CHOOSE i \in 1..26 : LowerLetters[i] = c] ELSE c
LowerChar(c) == IF IsUpper(c) THEN LowerLetters[CHOOSE i \in 1..26 : UpperLetters[i] = c] ELSE c
\* String.prototype.toUpperCase, toLowerCase
ToUpperCase(t) == [i \in 1..Len(t) |-> UpperChar(t[i])]
ToLowerCase(t) == [i \in 1..Len(t) |-> LowerChar(t[i])]
\* the text has w at position i
HasAt(t, i, w) == i >= 1 /\ i + Len(w) - 1 <= Len(t) /\ SubSeq(t, i, i + Len(w) - 1) = w
\* String.prototype.includes, startsWith, endsWith
Includes(t, w) == \E i \in 1..(Len(t) + 1) : HasAt(t, i, w)
StartsWith(t, w) == HasAt(t, 1, w)
EndsWith(t, w) == HasAt(t, Len(t) - Len(w) + 1, w)
Least(S) == CHOOSE i \in S : \A j \in S : i <= j
Greatest(S) == CHOOSE i \in S : \A j \in S : i >= j
\* String.prototype.trim
TrimText(t) ==
  LET keep == {i \in 1..Len(t) : t[i] \notin Whitespace}
  IN IF keep = {} THEN <<>> ELSE SubSeq(t, Least(keep), Greatest(keep))

\* the character U+0060, which a string of this notation cannot hold
Backquote == "backquote"

Fence ==
  <<Backquote, Backquote, Backquote>>

FenceSql ==
  <<Backquote, Backquote, Backquote, "s", "q", "l">>

\* sql.replace(fence-sql | fence, empty): every code fence is dropped, scanning from the left
RECURSIVE StripFencesFrom(_, _)
StripFencesFrom(t, i) ==
  LET at == {j \in i..Len(t) : HasAt(t, j, Fence)}
      j == Least(at)
  IN IF at = {} THEN SubSeq(t, i, Len(t))
     ELSE SubSeq(t, i, j - 1)
          \o StripFencesFrom(t, j + (IF HasAt(t, j, FenceSql) THEN Len(FenceSql) ELSE Len(Fence)))
StripFences(t) == StripFencesFrom(t, 1)


\* ------------------------------------------------------ validateSQLColumns

\* the allow-list of table.column names
validColumns ==
  {<<"u", "s", "e", "r", "s", ".", "i", "d">>,
   <<"u", "s", "e", "r", "s", ".", "n", "a", "m", "e">>,
   <<"u", "s", "e", "r", "s", ".", "e", "m", "a", "i", "l">>,
   <<"u", "s", "e", "r", "s", ".", "p", "a", "s", "s", "w", "o", "r", "d">>,
   <<"u", "s", "e", "r", "s", ".", "p", "h", "o", "n", "e">>,
   <<"u", "s", "e", "r", "s", ".", "s", "t", "r", "e", "e", "t">>,
   <<"u", "s", "e", "r", "s", ".", "c", "i", "t", "y">>,
   <<"u", "s", "e", "r", "s", ".", "s", "t", "a", "t", "e">>,
   <<"u", "s", "e", "r", "s", ".", "p", "o", "s", "t", "a", "l", "_", "c", "o", "d", "e">>,
   <<"u", "s", "e", "r", "s", ".", "c", "o", "u", "n", "t", "r", "y">>,
   <<"u", "s", "e", "r", "s", ".", "s", "t", "a", "t", "u", "s">>,
   <<"u", "s", "e", "r", "s", ".", "r", "e", "g", "i", "s", "t", "r", "a", "t", "i", "o", "n", "_", "d", "a", "t", "e">>,
   <<"u", "s", "e", "r", "s", ".", "l", "i", "c", "e", "n", "s", "e", "_", "n", "u", "m", "b", "e", "r">>,
   <<"u", "s", "e", "r", "s", ".", "r", "o", "l", "e">>,
   <<"u", "s", "e", "r", "s", ".", "c", "r", "e", "a", "t", "e", "d", "_", "b", "y">>,
   <<"u", "s", "e", "r", "s", ".", "c", "r", "e", "a", "t", "e", "d", "_", "a", "t">>,
   <<"u", "s", "e", "r", "s", ".", "u", "p", "d", "a", "t", "e", "d", "_", "a", "t">>,
   <<"d", "r", "u", "g", "s", ".", "i", "d">>,
   <<"d", "r", "u", "g", "s", ".", "d", "r", "u", "g", "_", "t", "y", "p", "e">>,
   <<"d", "r", "u", "g", "s", ".", "n", "a", "m", "e">>,
   <<"d", "r", "u", "g", "s", ".", "b", "a", "t", "c", "h", "_", "n", "o">>,
   <<"d", "r", "u", "g", "s", ".", "d", "e", "s", "c", "r", "i", "p", "t", "i", "o", "n">>,
   <<"d", "r", "u", "g", "s", ".", "s", "t", "o", "c", "k">>,
   <<"d", "r", "u", "g", "s", ".", "m", "f", "g", "_", "d", "a", "t", "e">>,
   <<"d", "r", "u", "g", "s", ".", "e", "x", "p", "_", "d", "a", "t", "e">>,
   <<"d", "r", "u", "g", "s", ".", "p", "r", "i", "c", "e">>,
   <<"d", "r", "u", "g", "s", ".", "c", "r", "e", "a", "t", "e", "d", "_", "b", "y">>,
   <<"d", "r", "u", "g", "s", ".", "c", "a", "t", "e", "g", "o", "r", "y">>,
   <<"d", "r", "u", "g", "s", ".", "c", "r", "e", "a", "t", "e", "d", "_", "a", "t">>,
   <<"d", "r", "u", "g", "s", ".", "u", "p", "d", "a", "t", "e", "d", "_", "a", "t">>,
   <<"o", "r", "d", "e", "r", "s", ".", "i", "d">>,
   <<"o", "r", "d", "e", "r", "s", ".", "o", "r", "d", "e", "r", "_", "n", "o">>,
   <<"o", "r", "d", "e", "r", "s", ".", "u", "s", "e", "r", "_", "i", "d">>,
   <<"o", "r", "d", "e", "r", "s", ".", "r", "e", "c", "i", "p", "i", "e", "n", "t", "_", "i", "d">>,
   <<"o", "r", "d", "e", "r", "s", ".", "t", "r", "a", "n", "s", "a", "c", "t", "i", "o", "n", "_", "t", "y", "p", "e">>,
   <<"o", "r", "d", "e", "r", "s", ".", "n", "o", "t", "e", "s">>,
   <<"o", "r", "d", "e", "r", "s", ".", "t", "o", "t", "a", "l", "_", "a", "m", "o", "u", "n", "t">>,
   <<"o", "r", "d", "e", "r", "s", ".", "c", "r", "e", "a", "t", "e", "d", "_", "a", "t">>,
   <<"o", "r", "d", "e", "r", "s", ".", "u", "p", "d", "a", "t", "e", "d", "_", "a", "t">>,
   <<"o", "r", "d", "e", "r", "_", "i", "t", "e", "m", "s", ".", "i", "d">>,
   <<"o", "r", "d", "e", "r", "_", "i", "t", "e", "m", "s", ".", "o", "r", "d", "e", "r", "_", "i", "d">>,
   <<"o", "r", "d", "e", "r", "_", "i", "t", "e", "m", "s", ".", "d", "r", "u", "g", "_", "i", "d">>,
   <<"o", "r", "d", "e", "r", "_", "i", "t", "e", "m", "s", ".", "c", "u", "s", "t", "o", "m", "_", "n", "a", "m", "e">>,
   <<"o", "r", "d", "e", "r", "_", "i", "t", "e", "m", "s", ".", "m", "a", "n", "u", "f", "a", "c", "t", "u", "r", "e", "r", "_", "n", "a", "m", "e">>,
   <<"o", "r", "d", "e", "r", "_", "i", "t", "e", "m", "s", ".", "q", "u", "a", "n", "t", "i", "t", "y">>,
   <<"o", "r", "d", "e", "r", "_", "i", "t", "e", "m", "s", ".", "u", "n", "i", "t", "_", "p", "r", "i", "c", "e">>,
   <<"o", "r", "d", "e", "r", "_", "i", "t", "e", "m", "s", ".", "t", "o", "t", "a", "l", "_", "p", "r", "i", "c", "e">>,
   <<"o", "r", "d", "e", "r", "_", "i", "t", "e", "m", "s", ".", "s", "o", "u", "r", "c", "e", "_", "t", "y", "p", "e">>,
   <<"o", "r", "d", "e", "r", "_", "i", "t", "e", "m", "s", ".", "c", "a", "t", "e", "g", "o", "r", "y">>,
   <<"o", "r", "d", "e", "r", "_", "i", "t", "e", "m", "s", ".", "b", "a", "t", "c", "h", "_", "n", "o">>,
   <<"o", "r", "d", "e", "r", "_", "i", "t", "e", "m", "s", ".", "s", "e", "l", "l", "e", "r", "_", "i", "d">>,
   <<"o", "r", "d", "e", "r", "_", "i", "t", "e", "m", "s", ".", "s", "t", "a", "t", "u", "s">>,
   <<"o", "r", "d", "e", "r", "_", "i", "t", "e", "m", "s", ".", "c", "r", "e", "a", "t", "e", "d", "_", "a", "t">>,
   <<"o", "r", "d", "e", "r", "_", "i", "t", "e", "m", "s", ".", "u", "p", "d", "a", "t", "e", "d", "_", "a", "t">>,
   <<"d", "r", "u", "g", "_", "t", "y", "p", "e", "s", ".", "i", "d">>,
   <<"d", "r", "u", "g", "_", "t", "y", "p", "e", "s", ".", "t", "y", "p", "e", "_", "n", "a", "m", "e">>,
   <<"d", "r", "u", "g", "_", "t", "y", "p", "e", "s", ".", "c", "r", "e", "a", "t", "e", "d", "_", "a", "t">>,
   <<"d", "r", "u", "g", "_", "t", "y", "p", "e", "s", ".", "u", "p", "d", "a", "t", "e", "d", "_", "a", "t">>,
   <<"d", "r", "u", "g", "_", "n", "a", "m", "e", "s", ".", "i", "d">>,
   <<"d", "r", "u", "g", "_", "n", "a", "m", "e", "s", ".", "t", "y", "p", "e", "_", "i", "d">>,
   <<"d", "r", "u", "g", "_", "n", "a", "m", "e", "s", ".", "n", "a", "m", "e">>,
   <<"d", "r", "u", "g", "_", "n", "a", "m", "e", "s", ".", "c", "r", "e", "a", "t", "e", "d", "_", "a", "t">>,
   <<"d", "r", "u", "g", "_", "n", "a", "m", "e", "s", ".", "u", "p", "d", "a", "t", "e", "d", "_", "a", "t">>}

\* SQL keywords the token check ignores
sqlKeywords ==
  {<<"s", "e", "l", "e", "c", "t">>,
   <<"f", "r", "o", "m">>,
   <<"w", "h", "e", "r", "e">>,
   <<"o", "r", "d", "e", "r">>,
   <<"b", "y">>,
   <<"l", "i", "m", "i", "t">>,
   <<"j", "o", "i", "n">>,
   <<"l", "e", "f", "t">>,
   <<"r", "i", "g", "h", "t">>,
   <<"i", "n", "n", "e", "r">>,
   <<"o", "u", "t", "e", "r">>,
   <<"o", "n">>,
   <<"a", "n", "d">>,
   <<"o", "r">>,
   <<"g", "r", "o", "u", "p">>,
   <<"h", "a", "v", "i", "n", "g">>,
   <<"a", "s">>,
   <<"c", "o", "u", "n", "t">>,
   <<"s", "u", "m">>,
   <<"a", "v", "g">>,
   <<"m", "i", "n">>,
   <<"m", "a", "x">>,
   <<"d", "i", "s", "t", "i", "n", "c", "t">>,
   <<"c", "a", "s", "e">>,
   <<"w", "h", "e", "n">>,
   <<"t", "h", "e", "n">>,
   <<"e", "l", "s", "e">>,
   <<"e", "n", "d">>,
   <<"b", "e", "t", "w", "e", "e", "n">>,
   <<"i", "n">>,
   <<"i", "s">>,
   <<"n", "o", "t">>,
   <<"n", "u", "l", "l">>,
   <<"l", "i", "k", "e">>,
   <<"i", "l", "i", "k", "e">>,
   <<"e", "x", "i", "s", "t", "s">>,
   <<"n", "o", "w">>,
   <<"i", "n", "t", "e", "r", "v", "a", "l">>,
   <<"t", "r", "u", "e">>,
   <<"f", "a", "l", "s", "e">>,
   <<"o", "f", "f", "s", "e", "t">>,
   <<"u", "n", "i", "o", "n">>,
   <<"a", "l", "l">>,
   <<"e", "x", "c", "e", "p", "t">>,
   <<"i", "n", "t", "e", "r", "s", "e", "c", "t">>}

FromWord ==
  <<"f", "r", "o", "m">>

JoinWord ==
  <<"j", "o", "i", "n">>

AsWord ==
  <<"a", "s">>

\* aliasMap is an object literal: the lower-case keys it inherits from Object.prototype
ConstructorWord ==
  <<"c", "o", "n", "s", "t", "r", "u", "c", "t", "o", "r">>

ProtoWord ==
  <<"_", "_", "p", "r", "o", "t", "o", "_", "_">>

PrototypeKeys == {ConstructorWord, ProtoWord}

Letters == {LowerLetters[i] : i \in 1..26} \cup {UpperLetters[i] : i \in 1..26}
\* \w, and [a-z_] under the i flag
WordChars == Letters \cup Digits \cup {"_"}
IdentStart == Letters \cup {"_"}
\* [a-z0-9_."] under the i flag
TableChars == WordChars \cup {".", "\""}
WordAt(t, i) == i \in 1..Len(t) /\ t[i] \in WordChars
\* \b in front of character i
Boundary(t, i) == WordAt(t, i - 1) # WordAt(t, i)
\* the last character of the longest run of characters of S that starts at i
RunEnd(t, i, S) ==
  CHOOSE e \in (i - 1)..Len(t) :
    /\ \A k \in i..e : t[k] \in S
    /\ e = Len(t) \/ t[e + 1] \notin S

\* .replace(/q(?:\\q|[^q])*q/g, ' ') for a quote q, .replace(/\$\$[\s\S]*?\$\$/g, ' ')
\* for q = $$: a stretch from q to the next q becomes one blank (the texts
\* carry no backslash)
RECURSIVE RemoveQuotedFrom(_, _, _)
RemoveQuotedFrom(t, i, q) ==
  LET open == {j \in i..Len(t) : HasAt(t, j, q) /\ \E k \in (j + Len(q))..Len(t) : HasAt(t, k, q)}
      j == Least(open)
      close == Least({k \in (j + Len(q))..Len(t) : HasAt(t, k, q)})
  IN IF open = {} THEN SubSeq(t, i, Len(t))
     ELSE SubSeq(t, i, j - 1) \o <<" ">> \o RemoveQuotedFrom(t, close + Len(q), q)
sqlNoStrings(sql) ==
  RemoveQuotedFrom(RemoveQuotedFrom(RemoveQuotedFrom(sql, 1, <<"'">>), 1, <<"\"">>), 1,
                   <<"$", "$">>)
lowerSql(sql) == ToLowerCase(sqlNoStrings(sql))

\* one match of tableRegex at position i:
\* \b(?:from|join)\s+([a-z0-9_."]+)(?:\s+(?:as\s+)?([a-z_][\w]*))?
NoMatch == [ok |-> FALSE, first |-> <<>>, second |-> <<>>, end |-> 0]
AliasAt(t, m) ==
  LET n == RunEnd(t, m + 1, Whitespace) + 1
      n2 == RunEnd(t, n + 2, Whitespace) + 1
  IN IF n = m + 1 \/ n > Len(t) THEN [second |-> <<>>, end |-> m]
     ELSE IF HasAt(t, n, AsWord) /\ n2 > n + 2 /\ n2 <= Len(t) /\ t[n2] \in IdentStart
       THEN [second |-> SubSeq(t, n2, RunEnd(t, n2, WordChars)),
             end |-> RunEnd(t, n2, WordChars)]
     ELSE IF t[n] \in IdentStart
       THEN [second |-> SubSeq(t, n, RunEnd(t, n, WordChars)),
             end |-> RunEnd(t, n, WordChars)]
     ELSE [second |-> <<>>, end |-> m]
TableAt(t, i) ==
  IF ~(Boundary(t, i) /\ (HasAt(t, i, FromWord) \/ HasAt(t, i, JoinWord))) THEN NoMatch
  ELSE LET k == RunEnd(t, i + 4, Whitespace) + 1
           m == RunEnd(t, k, TableChars)
       IN IF k = i + 4 \/ m < k THEN NoMatch
          ELSE [ok |-> TRUE, first |-> SubSeq(t, k, m),
                second |-> AliasAt(t, m).second, end |-> AliasAt(t, m).end]
\* one match of qualifiedRegex at position i: \b([a-z_][\w]*)\.([a-z_][\w]*)\b
QualifiedAt(t, i) ==
  IF ~(Boundary(t, i) /\ t[i] \in IdentStart) THEN NoMatch
  ELSE LET e == RunEnd(t, i, WordChars)
       IN IF e + 2 <= Len(t) /\ t[e + 1] = "." /\ t[e + 2] \in IdentStart
            THEN [ok |-> TRUE, first |-> SubSeq(t, i, e),
                  second |-> SubSeq(t, e + 2, RunEnd(t, e + 2, WordChars)),
                  end |-> RunEnd(t, e + 2, WordChars)]
          ELSE NoMatch
\* one match of tokenRegex at position i: \b([a-z_][\w]*)\b; second is m.index
TokenAt(t, i) ==
  IF ~(Boundary(t, i) /\ t[i] \in IdentStart) THEN NoMatch
  ELSE [ok |-> TRUE, first |-> SubSeq(t, i, RunEnd(t, i, WordChars)),
        second |-> i, end |-> RunEnd(t, i, WordChars)]
\* while ((m = regex.exec(lowerSql)) !== null): the matches from the left,
\* each search starting where the last match ended
RECURSIVE TableMatches(_, _)
TableMatches(t, i) ==
  LET at == {j \in i..Len(t) : TableAt(t, j).ok}
  IN IF at = {} THEN <<>>
     ELSE <<TableAt(t, Least(at))>> \o TableMatches(t, TableAt(t, Least(at)).end + 1)
RECURSIVE QualifiedMatches(_, _)
QualifiedMatches(t, i) ==
  LET at == {j \in i..Len(t) : QualifiedAt(t, j).ok}
  IN IF at = {} THEN <<>>
     ELSE <<QualifiedAt(t, Least(at))>> \o QualifiedMatches(t, QualifiedAt(t, Least(at)).end + 1)
RECURSIVE TokenMatches(_, _)
TokenMatches(t, i) ==
  LET at == {j \in i..Len(t) : TokenAt(t, j).ok}
  IN IF at = {} THEN <<>>
     ELSE <<TokenAt(t, Least(at))>> \o TokenMatches(t, TokenAt(t, Least(at)).end + 1)

\* tableToken.replace(/^"+|"+$/g, '').split('.').pop()
TableName(tableToken) ==
  LET inner == {i \in 1..Len(tableToken) : tableToken[i] # "\""}
      a == IF inner = {} THEN 1 ELSE Least(inner)
      b == IF inner = {} THEN 0 ELSE Greatest(inner)
      dots == {i \in a..b : tableToken[i] = "."}
  IN IF dots = {} THEN SubSeq(tableToken, a, b)
     ELSE SubSeq(tableToken, 1 + Greatest(dots), b)
\* the assignments to aliasMap, in order: <<key, value>>
RECURSIVE AliasAssignments(_)
AliasAssignments(matches) ==
  IF matches = <<>> THEN <<>>
  ELSE LET m == Head(matches)
           tableName == TableName(m.first)
       IN (IF m.second # <<>> THEN <<(<<m.second, tableName>>)>> ELSE <<>>)
          \o <<(<<tableName, tableName>>)>> \o AliasAssignments(Tail(matches))
aliasMap(t) == AliasAssignments(TableMatches(t, 1))
\* the assignments that create or change an own property of aliasMap (an
\* assignment of a string to __proto__ does nothing)
Own(map, key) == {i \in 1..Len(map) : map[i][1] = key /\ key # ProtoWord}
\* aliasMap[key] of an own key: the value assigned last
OwnValue(map, key) == map[Greatest(Own(map, key))][2]
\* if (aliasMap[token]): an own value that is not the empty string, or an
\* inherited property
Mapped(map, token) ==
  IF Own(map, token) # {} THEN OwnValue(map, token) # <<>> ELSE token \in PrototypeKeys
\* `${aliasMap[tbl] || tbl}.${col}` is on the allow-list; an inherited
\* property is an object and never the name of a table
QualifiedValid(map, tbl, col) ==
  IF Own(map, tbl) # {} /\ OwnValue(map, tbl) # <<>>
    THEN OwnValue(map, tbl) \o <<".">> \o col \in validColumns
  ELSE IF Own(map, tbl) = {} /\ tbl \in PrototypeKeys THEN FALSE
  ELSE tbl \o <<".">> \o col \in validColumns

\* lowerSql.slice(Math.max(0, m.index - 3), m.index + token.length + 2)
Ahead(t, i, len) ==
  SubSeq(t, IF i - 3 < 1 THEN 1 ELSE i - 3, IF i + len + 1 > Len(t) THEN Len(t) ELSE i + len + 1)
\* /\.[a-z_]/.test(ahead) || /\b[a-z_][\w]*\.\b/.test(ahead)
PartOfQualified(ahead) ==
  \/ \E j \in 1..(Len(ahead) - 1) :
       ahead[j] = "." /\ (IsLower(ahead[j + 1]) \/ ahead[j + 1] = "_")
  \/ \E j \in 1..Len(ahead) :
       /\ Boundary(ahead, j)
       /\ IsLower(ahead[j]) \/ ahead[j] = "_"
       /\ LET e == RunEnd(ahead, j, WordChars)
          IN e + 1 <= Len(ahead) /\ ahead[e + 1] = "." /\ WordAt(ahead, e + 2)
\* validColumns.some(c => c.endsWith('.' + token))
ColumnSuffix(token) == \E c \in validColumns : EndsWith(c, <<".">> \o token)

\* a bare token is flagged
BareInvalid(t, map, m) ==
  /\ m.first \notin sqlKeywords
  /\ ~PartOfQualified(Ahead(t, m.second, Len(m.first)))
  /\ ~ColumnSuffix(m.first)
  /\ ~Mapped(map, m.first)
\* Array.from(new Set(..)): the entries in the order of their first addition
RECURSIVE Distinct(_)
Distinct(s) ==
  IF s = <<>> THEN <<>>
  ELSE LET front == Distinct(SubSeq(s, 1, Len(s) - 1))
       IN IF \E i \in 1..Len(front) : front[i] = s[Len(s)] THEN front
          ELSE Append(front, s[Len(s)])
\* the invalid tokens of a statement
validateSQLColumns(sql) ==
  LET t == lowerSql(sql)
      map == aliasMap(t)
      q == QualifiedMatches(t, 1)
      badq == SelectSeq(q, LAMBDA m : ~QualifiedValid(map, m.first, m.second))
      b == TokenMatches(t, 1)
      badb == SelectSeq(b, LAMBDA m : BareInvalid(t, map, m))
  IN Distinct([i \in 1..Len(badq) |-> badq[i].first \o <<".">> \o badq[i].second]
              \o [i \in 1..Len(badb) |-> badb[i].first])

\* ---------------------------------------------------- generateValidatedSQL

forbiddenKeywords ==
  {<<"I", "N", "S", "E", "R", "T">>,
   <<"U", "P", "D", "A", "T", "E">>,
   <<"D", "E", "L", "E", "T", "E">>,
   <<"D", "R", "O", "P">>,
   <<"A", "L", "T", "E", "R">>,
   <<"C", "R", "E", "A", "T", "E">>,
   <<"T", "R", "U", "N", "C", "A", "T", "E">>}

SelectWord ==
  <<"S", "E", "L", "E", "C", "T">>


\* texts the language model answers with

\* SELECT d.stock, d.name FROM drugs d WHERE d.id = 1 LIMIT 20
SqlStockName ==
  <<"S", "E", "L", "E", "C", "T", " ", "d", ".", "s", "t", "o", "c", "k", ",", " ", "d", ".",
  "n", "a", "m", "e", " ", "F", "R", "O", "M", " ", "d", "r", "u", "g", "s", " ", "d", " ",
  "W", "H", "E", "R", "E", " ", "d", ".", "i", "d", " ", "=", " ", "1", " ", "L", "I", "M",
  "I", "T", " ", "2", "0">>

\* SELECT o.order_id FROM orders o LIMIT 20
SqlOrderId ==
  <<"S", "E", "L", "E", "C", "T", " ", "o", ".", "o", "r", "d", "e", "r", "_", "i", "d", " ",
  "F", "R", "O", "M", " ", "o", "r", "d", "e", "r", "s", " ", "o", " ", "L", "I", "M", "I",
  "T", " ", "2", "0">>

\* DROP TABLE drugs
SqlDropTable ==
  <<"D", "R", "O", "P", " ", "T", "A", "B", "L", "E", " ", "d", "r", "u", "g", "s">>

\* SELECT id FROM drugs; SELECT id FROM users
SqlTwoSelects ==
  <<"S", "E", "L", "E", "C", "T", " ", "i", "d", " ", "F", "R", "O", "M", " ", "d", "r", "u",
  "g", "s", ";", " ", "S", "E", "L", "E", "C", "T", " ", "i", "d", " ", "F", "R", "O", "M",
  " ", "u", "s", "e", "r", "s">>

\* select stock from drugs limit 20
SqlLowerCase ==
  <<"s", "e", "l", "e", "c", "t", " ", "s", "t", "o", "c", "k", " ", "f", "r", "o", "m", " ",
  "d", "r", "u", "g", "s", " ", "l", "i", "m", "i", "t", " ", "2", "0">>

\* SELECT created_at FROM drugs LIMIT 20
SqlCreatedAt ==
  <<"S", "E", "L", "E", "C", "T", " ", "c", "r", "e", "a", "t", "e", "d", "_", "a", "t", " ",
  "F", "R", "O", "M", " ", "d", "r", "u", "g", "s", " ", "L", "I", "M", "I", "T", " ", "2",
  "0">>

\* (backquote)(backquote)(backquote)sql\nSELECT name FROM drugs LIMIT 20\n(backquote)(backquote)(backquote)
SqlFenced ==
  <<Backquote, Backquote, Backquote, "s", "q", "l", "\n", "S", "E", "L", "E", "C", "T", " ",
  "n", "a", "m", "e", " ", "F", "R", "O", "M", " ", "d", "r", "u", "g", "s", " ", "L", "I",
  "M", "I", "T", " ", "2", "0", "\n", Backquote, Backquote, Backquote>>

\* SELECT id FROM drugs; DELETE FROM drugs
SqlSelectThenDelete ==
  <<"S", "E", "L", "E", "C", "T", " ", "i", "d", " ", "F", "R", "O", "M", " ", "d", "r", "u",
  "g", "s", ";", " ", "D", "E", "L", "E", "T", "E", " ", "F", "R", "O", "M", " ", "d", "r",
  "u", "g", "s">>

\* SELECT "secret" FROM drugs LIMIT 20
SqlQuotedColumn ==
  <<"S", "E", "L", "E", "C", "T", " ", "\"", "s", "e", "c", "r", "e", "t", "\"", " ", "F", "R",
  "O", "M", " ", "d", "r", "u", "g", "s", " ", "L", "I", "M", "I", "T", " ", "2", "0">>

\* SELECT constructor FROM drugs LIMIT 20
SqlConstructor ==
  <<"S", "E", "L", "E", "C", "T", " ", "c", "o", "n", "s", "t", "r", "u", "c", "t", "o", "r",
  " ", "F", "R", "O", "M", " ", "d", "r", "u", "g", "s", " ", "L", "I", "M", "I", "T", " ",
  "2", "0">>

\* SELECT secret FROM drugs LIMIT 20
SqlUnknownColumn ==
  <<"S", "E", "L", "E", "C", "T", " ", "s", "e", "c", "r", "e", "t", " ", "F", "R", "O", "M",
  " ", "d", "r", "u", "g", "s", " ", "L", "I", "M", "I", "T", " ", "2", "0">>

\* SELECT o.order_no, u.name FROM orders o JOIN users u ON o.user_id = u.id LIMIT 20
SqlJoin ==
  <<"S", "E", "L", "E", "C", "T", " ", "o", ".", "o", "r", "d", "e", "r", "_", "n", "o", ",",
  " ", "u", ".", "n", "a", "m", "e", " ", "F", "R", "O", "M", " ", "o", "r", "d", "e", "r",
  "s", " ", "o", " ", "J", "O", "I", "N", " ", "u", "s", "e", "r", "s", " ", "u", " ", "O",
  "N", " ", "o", ".", "u", "s", "e", "r", "_", "i", "d", " ", "=", " ", "u", ".", "i", "d",
  " ", "L", "I", "M", "I", "T", " ", "2", "0">>

\* SELECT 1 /* from x do */; DO $$ BEGIN EXECUTE 'UPD' || 'ATE drugs SET stock = 0'; END $$
SqlDoBlock ==
  <<"S", "E", "L", "E", "C", "T", " ", "1", " ", "/", "*", " ", "f", "r", "o", "m", " ", "x",
  " ", "d", "o", " ", "*", "/", ";", " ", "D", "O", " ", "$", "$", " ", "B", "E", "G", "I",
  "N", " ", "E", "X", "E", "C", "U", "T", "E", " ", "'", "U", "P", "D", "'", " ", "|", "|",
  " ", "'", "A", "T", "E", " ", "d", "r", "u", "g", "s", " ", "S", "E", "T", " ", "s", "t",
  "o", "c", "k", " ", "=", " ", "0", "'", ";", " ", "E", "N", "D", " ", "$", "$">>

\* SELECT name FROM drugs WHERE category = 'secret' LIMIT 20
SqlLiteral ==
  <<"S", "E", "L", "E", "C", "T", " ", "n", "a", "m", "e", " ", "F", "R", "O", "M", " ", "d",
  "r", "u", "g", "s", " ", "W", "H", "E", "R", "E", " ", "c", "a", "t", "e", "g", "o", "r",
  "y", " ", "=", " ", "'", "s", "e", "c", "r", "e", "t", "'", " ", "L", "I", "M", "I", "T",
  " ", "2", "0">>

\* SELECT name, batch_no, price FROM drugs LIMIT 20
SqlDrugPrice ==
  <<"S", "E", "L", "E", "C", "T", " ", "n", "a", "m", "e", ",", " ", "b", "a", "t", "c", "h",
  "_", "n", "o", ",", " ", "p", "r", "i", "c", "e", " ", "F", "R", "O", "M", " ", "d", "r",
  "u", "g", "s", " ", "L", "I", "M", "I", "T", " ", "2", "0">>

\* Here is the query
SqlExplanation ==
  <<"H", "e", "r", "e", " ", "i", "s", " ", "t", "h", "e", " ", "q", "u", "e", "r", "y">>

GeneratedTexts ==
  {SqlStockName,
   SqlOrderId,
   SqlDropTable,
   SqlTwoSelects,
   SqlLowerCase,
   SqlCreatedAt,
   SqlFenced,
   SqlSelectThenDelete,
   SqlQuotedColumn,
   SqlConstructor,
   SqlUnknownColumn,
   SqlJoin,
   SqlDoBlock,
   SqlLiteral,
   SqlDrugPrice,
   SqlExplanation}


\* the model's answer: the fetch fails, times out or is not ok, or it
\* carries a text
GenerationOutcomes ==
  {[ok |-> FALSE, response |-> <<>>]} \cup {[ok |-> TRUE, response |-> t] : t \in GeneratedTexts}
\* (await response.json()).response.trim(), then the code fences dropped
SqlOf(response) == TrimText(StripFences(TrimText(response)))
Unsafe(sql) == \E keyword \in forbiddenKeywords : Includes(ToUpperCase(sql), keyword)
NotSelect(sql) == ~StartsWith(ToUpperCase(sql), SelectWord)
\* variant: the column names are not validated
generateValidatedSQLAnyColumn(out) ==
  IF ~out.ok THEN Absent
  ELSE IF Unsafe(SqlOf(out.response)) THEN Absent
  ELSE IF NotSelect(SqlOf(out.response)) THEN Absent
  ELSE <<SqlOf(out.response)>>
\* the validated statement, Absent for null
generateValidatedSQL(out) ==
  IF ~out.ok THEN Absent
  ELSE IF Unsafe(SqlOf(out.response)) THEN Absent
  ELSE IF NotSelect(SqlOf(out.response)) THEN Absent
  ELSE IF validateSQLColumns(SqlOf(out.response)) # <<>> THEN Absent
  ELSE <<SqlOf(out.response)>>
\* ghost: what validateSQLColumns returned, Absent when it was not called
InvalidColumns(out) ==
  IF ~out.ok \/ Unsafe(SqlOf(out.response)) \/ NotSelect(SqlOf(out.response)) THEN Absent
  ELSE <<validateSQLColumns(SqlOf(out.response))>>
\* every outcome with what generateValidatedSQL makes of it
Generated ==
  [out \in GenerationOutcomes |->
     [sql |-> generateValidatedSQL(out), invalid |-> InvalidColumns(out)]]

\* ------------------------------------------- PostgreSQL, simple query protocol
\* db.query(text) without parameters runs every statement of the text, in
\* one implicit transaction
Semicolon == ";"
OpenComment == <<"/", "*">>
CloseComment == <<"*", "/">>
DollarQuote == <<"$", "$">>
DoWord == <<"d", "o">>
Count(S) == Cardinality(S)
\* position j lies inside a string constant, a dollar-quoted body or a comment
Quoted(t, j) ==
  \/ Count({k \in 1..(j - 1) : t[k] = "'"}) % 2 = 1
  \/ Count({k \in 1..(j - 1) : HasAt(t, k, DollarQuote)}) % 2 = 1
  \/ \E a \in 1..(j - 1) : HasAt(t, a, OpenComment)
                           /\ ~\E b \in (a + 2)..(j - 1) : HasAt(t, b, CloseComment)
RECURSIVE StatementsFrom(_, _)
StatementsFrom(t, i) ==
  LET ends == {j \in i..Len(t) : t[j] = Semicolon /\ ~Quoted(t, j)}
  IN IF ends = {} THEN <<SubSeq(t, i, Len(t))>>
     ELSE <<SubSeq(t, i, Least(ends) - 1)>> \o StatementsFrom(t, Least(ends) + 1)
\* the statements of a text that are not empty
Statements(t) == SelectSeq(StatementsFrom(t, 1), LAMBDA s : TrimText(s) # <<>>)
\* the command word of a statement
Verb(statement) ==
  LET words == TokenMatches(ToLowerCase(statement), 1)
  IN IF words = <<>> THEN <<>> ELSE words[1].first
\* the string constants of a statement, concatenated ('a' || 'b')
RECURSIVE ConstantsFrom(_, _)
ConstantsFrom(t, i) ==
  LET open == {j \in i..Len(t) : t[j] = "'" /\ \E k \in (j + 1)..Len(t) : t[k] = "'"}
      j == Least(open)
      close == Least({k \in (j + 1)..Len(t) : t[k] = "'"})
  IN IF open = {} THEN <<>> ELSE SubSeq(t, j + 1, close - 1) \o ConstantsFrom(t, close + 1)
WriteVerbs == {ToLowerCase(keyword) : keyword \in forbiddenKeywords}
\* a statement that writes: one of the writing commands, or a DO block
\* that runs one with EXECUTE
WritingStatement(statement) ==
  \/ Verb(statement) \in WriteVerbs
  \/ Verb(statement) = DoWord /\ Verb(ConstantsFrom(statement, 1)) \in WriteVerbs
\* the database after the text ran; a writing statement is taken to be one
\* on the drugs table that leaves no stock (UPDATE drugs SET stock = 0)
Execute(d, sql) ==
  IF \E i \in 1..Len(Statements(sql)) : WritingStatement(Statements(sql)[i])
    THEN [d EXCEPT !.stock = [x \in Drugs |-> 0]]
  ELSE d
\* an array of results, one per statement, has no rows property
ArrayResult(sql) == Len(Statements(sql)) > 1
QueryOutcomes(sql) == IF ArrayResult(sql) THEN {"empty", "error"} ELSE {"rows", "empty", "error"}

\* ------------------------------------------------------ handleChatbotQuery
Roles == {"admin", "institute", "pharmacy"}
\* user.role of a chatbot request: a role of the system, or any other text
ChatRoles == Roles \cup {"other"}
\* the questions asked: stock
StockQuestion ==
  <<"s", "t", "o", "c", "k">>
\* orders
OrdersQuestion ==
  <<"o", "r", "d", "e", "r", "s">>
\* hello
HelloQuestion ==
  <<"h", "e", "l", "l", "o">>
Queries == {<<>>, StockQuestion, OrdersQuestion, HelloQuestion}
Sent(kind, role, text) == [kind |-> kind, role |-> role, text |-> text]

\* the checks on the request
ChatBegin(p) ==
  /\ Free(p)
  /\ \E caller \in Users \cup {NoUser}, role \in ChatRoles, query \in Queries :
       IF caller = NoUser
         THEN /\ Finish(p, Reply("handleChatbotQuery", 401, "Authentication required"))
       ELSE IF TrimText(query) = <<>>
         THEN /\ Finish(p, Reply("handleChatbotQuery", 400, "Query is required"))
       ELSE /\ pc' = [pc EXCEPT ![p] = "chat_generate"]
            /\ args' = [args EXCEPT ![p] = [NoArgs EXCEPT !.op = "handleChatbotQuery",
                                                          !.caller = caller, !.role = role,
                                                          !.query = query]]
            /\ UNCHANGED <<loc, last>>
  /\ Take(p)
  /\ UNCHANGED <<db, tx, hist>>

\* await generateValidatedSQL(query, user.role)
ChatGenerate(p) ==
  /\ pc[p] = "chat_generate"
  /\ \E out \in GenerationOutcomes :
       /\ loc' = [loc EXCEPT ![p].answer = out, ![p].sql = Generated[out].sql,
                             ![p].invalid = Generated[out].invalid]
       /\ pc' = [pc EXCEPT ![p] = IF Generated[out].sql # Absent THEN "chat_query"
                                  ELSE "chat_predefined"]
  /\ UNCHANGED <<db, tx, args, last, nreq, hist, trace>>

\* ------------------------------------------------------------ result rows
\* a row of result.rows is a function from its columns to what each holds:
\* null, a number, a text (the driver hands a NUMERIC over as text) or a date;
\* a column the row does not have is undefined
OrderNoWord == <<"o", "r", "d", "e", "r", "_", "n", "o">>
CreatedAtWord == <<"c", "r", "e", "a", "t", "e", "d", "_", "a", "t">>
NameWord == <<"n", "a", "m", "e">>
BatchNoWord == <<"b", "a", "t", "c", "h", "_", "n", "o">>
ExpDateWord == <<"e", "x", "p", "_", "d", "a", "t", "e">>
MfgDateWord == <<"m", "f", "g", "_", "d", "a", "t", "e">>
PriceWord == <<"p", "r", "i", "c", "e">>
TotalAmountWord == <<"t", "o", "t", "a", "l", "_", "a", "m", "o", "u", "n", "t">>
UnitPriceWord == <<"u", "n", "i", "t", "_", "p", "r", "i", "c", "e">>
Cell(row, key) == IF key \in DOMAIN row THEN row[key] ELSE "undefined"
\* what a column of the tables may hold
CellKinds(key) ==
  IF key \in {PriceWord, TotalAmountWord, UnitPriceWord} THEN {"null", "number", "text"}
  ELSE IF key \in {CreatedAtWord, ExpDateWord, MfgDateWord} THEN {"null", "date"}
  ELSE IF key \in {NameWord, BatchNoWord, OrderNoWord} THEN {"null", "text"}
  ELSE {"number"}
\* the keys of a row of result.rows: the columns the statement selects (the
\* texts select plain columns)
SelectList(sql) ==
  LET t == lowerSql(sql)
      from == {j \in 1..Len(t) : Boundary(t, j) /\ HasAt(t, j, FromWord)}
      words == TokenMatches(t, 1)
  IN {words[i].first :
        i \in {k \in 1..Len(words) :
                 /\ from # {} => words[k].second < Least(from)
                 /\ words[k].first \notin sqlKeywords
                 /\ ~HasAt(t, words[k].end + 1, <<".">>)}}
\* every validated statement with the keys of its rows
RowKeys == [sql \in {SqlOf(t) : t \in GeneratedTexts} |-> SelectList(sql)]
\* the rows a generated statement may return: one row, any content
RowsOf(sql) ==
  {<<row>> : row \in {f \in [RowKeys[sql] -> {"null", "number", "text", "date"}] :
                        \A key \in RowKeys[sql] : f[key] \in CellKinds(key)}}

\* what handleChatbotQuery holds in data: result.rows of the generated
\* statement (array), or the object of getRelevantData with the sections
\* formatResponse reads; Absent is undefined
NoData == [array |-> Absent, drugs |-> Absent, expiring_soon |-> Absent, orders |-> Absent,
           order_items |-> Absent]
ArrayData(rows) == [NoData EXCEPT !.array = <<rows>>]


\* await db.query(sqlQuery): rows, no rows, or an error that rolls the text back
ChatQuery(p) ==
  /\ pc[p] = "chat_query"
  /\ \E outcome \in QueryOutcomes(loc[p].sql[1]) :
       \E rows \in IF outcome = "rows" THEN RowsOf(loc[p].sql[1]) ELSE {<<>>} :
         /\ db' = IF outcome = "error" THEN db ELSE Execute(db, loc[p].sql[1])
         /\ loc' = [loc EXCEPT
                      ![p].sent = Append(@, Sent("generated", args[p].role, loc[p].sql[1])),
                      ![p].data = IF outcome = "rows" THEN "generated" ELSE "none",
                      ![p].fetched = IF outcome = "rows" THEN ArrayData(rows) ELSE NoData]
         /\ pc' = [pc EXCEPT ![p] = IF outcome = "rows" THEN "chat_reply"
                                    ELSE "chat_predefined"]
  /\ UNCHANGED <<tx, args, last, nreq, hist, trace>>

\* --------------------------------------------------------- getRelevantData
\* /drug|medicine|inventory|stock|batch|tablet|syrup|capsule/i
DrugWords ==
  {<<"d", "r", "u", "g">>, <<"m", "e", "d", "i", "c", "i", "n", "e">>,
   <<"i", "n", "v", "e", "n", "t", "o", "r", "y">>, <<"s", "t", "o", "c", "k">>,
   <<"b", "a", "t", "c", "h">>, <<"t", "a", "b", "l", "e", "t">>, <<"s", "y", "r", "u", "p">>,
   <<"c", "a", "p", "s", "u", "l", "e">>}
\* /order|purchase|delivery|shipment|transaction/i
OrderWords ==
  {<<"o", "r", "d", "e", "r">>, <<"p", "u", "r", "c", "h", "a", "s", "e">>,
   <<"d", "e", "l", "i", "v", "e", "r", "y">>, <<"s", "h", "i", "p", "m", "e", "n", "t">>,
   <<"t", "r", "a", "n", "s", "a", "c", "t", "i", "o", "n">>}
\* /expir|expiry|exp date|mfg|manufactur|shelf life/i
ExpirationWords ==
  {<<"e", "x", "p", "i", "r">>, <<"e", "x", "p", "i", "r", "y">>,
   <<"e", "x", "p", " ", "d", "a", "t", "e">>, <<"m", "f", "g">>,
   <<"m", "a", "n", "u", "f", "a", "c", "t", "u", "r">>,
   <<"s", "h", "e", "l", "f", " ", "l", "i", "f", "e">>}
\* /user|admin|institute|pharmacy|created by/i
UserWords ==
  {<<"u", "s", "e", "r">>, <<"a", "d", "m", "i", "n">>,
   <<"i", "n", "s", "t", "i", "t", "u", "t", "e">>, <<"p", "h", "a", "r", "m", "a", "c", "y">>,
   <<"c", "r", "e", "a", "t", "e", "d", " ", "b", "y">>}
\* /status|state|progress/i
StatusWords ==
  {<<"s", "t", "a", "t", "u", "s">>, <<"s", "t", "a", "t", "e">>,
   <<"p", "r", "o", "g", "r", "e", "s", "s">>}
\* /a|b|c/i.test(question)
Test(words, question) == \E word \in words : Includes(ToLowerCase(question), word)
questionAnalysis(question) ==
  [mentionsDrugs |-> Test(DrugWords, question),
   mentionsOrders |-> Test(OrderWords, question),
   mentionsExpiration |-> Test(ExpirationWords, question),
   mentionsUsers |-> Test(UserWords, question),
   isAskingStatus |-> Test(StatusWords, question)]

\* the rows of the predefined queries by their columns: d.* of drugs, the
\* critical-stock list (no exp_date), the expiring list, o.* of orders, oi.*
\* of order items, and lists of users or counts
Shapes ==
  [drug |-> {NameWord, BatchNoWord, ExpDateWord, MfgDateWord, PriceWord},
   critical |-> {NameWord, BatchNoWord, PriceWord},
   expiring |-> {NameWord, BatchNoWord, ExpDateWord, PriceWord},
   order |-> {OrderNoWord, CreatedAtWord, TotalAmountWord},
   item |-> {OrderNoWord, UnitPriceWord},
   plain |-> {NameWord}]
Query(send, shape, section) == [send |-> send, shape |-> shape, section |-> section]
\* const queries = {..}: the queries of the role in the order of the object,
\* each with its condition and the key `results` of its position is returned under
queries(role, qa) ==
  IF role = "admin"
    THEN <<Query(qa.mentionsDrugs, "drug", "drugs"),
           Query(TRUE, "plain", "institutes"),
           Query(qa.mentionsOrders, "order", "orders"),
           Query(qa.mentionsExpiration, "expiring", "expiring_soon"),
           Query(TRUE, "critical", "critical_stock"),
           Query(qa.mentionsUsers, "plain", "users"),
           Query(qa.isAskingStatus, "plain", "pending_orders")>>
  ELSE IF role = "institute"
    THEN <<Query(qa.mentionsDrugs, "drug", "drugs"),
           Query(qa.mentionsOrders, "order", "orders"),
           Query(TRUE, "item", "order_items"),
           Query(qa.mentionsExpiration, "expiring", "expiring_soon"),
           Query(qa.isAskingStatus, "plain", "pending_approvals")>>
  ELSE <<Query(qa.mentionsOrders, "order", "orders"),
         Query(TRUE, "item", "order_items"),
         Query(qa.mentionsDrugs, "drug", "inventory"),
         Query(TRUE, "plain", "pending_orders"),
         Query(qa.mentionsExpiration, "expiring", "expiring_soon")>>
\* what the tables hold when the predefined queries run: rows or none, money
\* as number, as text or NULL, dates set or NULL
Contents == [filled : BOOLEAN, money : {"null", "number", "text"}, dates : {"null", "date"}]
RowOf(shape, contents) ==
  [key \in Shapes[shape] |->
     IF key \in {PriceWord, TotalAmountWord, UnitPriceWord} THEN contents.money
     ELSE IF key = ExpDateWord /\ shape = "expiring" THEN "date"
     ELSE IF key \in {CreatedAtWord, ExpDateWord, MfgDateWord} THEN contents.dates
     ELSE "text"]
\* Object.values(queries).filter(q => q): the queries of the role that are sent
Sendable(role, question) ==
  SelectSeq(queries(role, questionAnalysis(question)), LAMBDA q : q.send)
\* Promise.all(.. .map(q => q.catch(e => ({rows: []})))) and the object
\* returned: a statement that raised (its position in `failed`) has no rows,
\* every other one the rows of its table, and results[k]?.rows is returned
\* under the key of position k
getRelevantData(role, question, contents, failed) ==
  LET all == queries(role, questionAnalysis(question))
      results == Sendable(role, question)
      rows(k) == IF k \in failed \/ ~contents.filled THEN <<>>
                 ELSE <<RowOf(results[k].shape, contents)>>
      at(section) ==
        LET K == {k \in 1..Len(all) : all[k].section = section}
        IN IF K = {} \/ Least(K) > Len(results) THEN Absent ELSE <<rows(Least(K))>>
  IN [NoData EXCEPT !.drugs = at("drugs"), !.expiring_soon = at("expiring_soon"),
                    !.orders = at("orders"), !.order_items = at("order_items")]

\* await getRelevantData(db, user, query.trim()): SET statement_timeout, whose
\* error is caught and returned as {error: 'Database operation failed'}; the
\* queries of the role, each with its own catch; {error: 'Unsupported user
\* role'} for any other role; RESET statement_timeout, whose error is dropped
ChatPredefined(p) ==
  /\ pc[p] = "chat_predefined"
  /\ LET role == args[p].role
         question == TrimText(args[p].query)
         sendable == IF role \in Roles THEN Sendable(role, question) ELSE <<>>
     IN \E timeoutFailed \in BOOLEAN, contents \in Contents,
           failed \in SUBSET (1..Len(sendable)) :
          loc' = [loc EXCEPT
                    ![p].sent = Append(@, Sent("predefined", role, <<>>)),
                    ![p].data = IF timeoutFailed THEN "error"
                                ELSE IF role \notin Roles THEN "unsupported"
                                ELSE "predefined",
                    ![p].fetched = IF timeoutFailed \/ role \notin Roles THEN NoData
                                   ELSE getRelevantData(role, question, contents, failed)]
  /\ pc' = [pc EXCEPT ![p] = "chat_reply"]
  /\ UNCHANGED <<db, tx, args, last, nreq, hist, trace>>

\* ---------------------------------------------------------- formatResponse
\* if (x): null, undefined and 0 are falsy
TruthyCell(c) == c \in {"number", "text", "date"}
\* new Date(x).toISOString() raises a RangeError on undefined and on a text
\* that is no date; new Date(null) is a date
ToISOStringThrows(c) == c \in {"undefined", "text"}
\* x.toFixed(2) raises a TypeError on a value that is no number
ToFixedThrows(c) == c \in {"text", "date"}
SomeRow(rows, P(_)) == \E k \in 1..Len(rows) : P(rows[k])
\* the rows of a section, none when the section is undefined
Section(s) == IF s = Absent THEN <<>> ELSE s[1]
\* formatResponse(data, ..) throws
FormatThrows(data) ==
  IF data.array # Absent
    THEN LET rows == data.array[1]
         IN IF rows = <<>> THEN FALSE
            ELSE IF TruthyCell(Cell(rows[1], NameWord)) /\ TruthyCell(Cell(rows[1], BatchNoWord))
              THEN SomeRow(rows, LAMBDA item :
                     \/ TruthyCell(Cell(item, ExpDateWord))
                          /\ ToISOStringThrows(Cell(item, ExpDateWord))
                     \/ ToFixedThrows(Cell(item, PriceWord)))
            ELSE IF TruthyCell(Cell(rows[1], OrderNoWord))
              THEN SomeRow(rows, LAMBDA item :
                     \/ ToISOStringThrows(Cell(item, CreatedAtWord))
                     \/ ToFixedThrows(Cell(item, TotalAmountWord)))
            ELSE FALSE
  ELSE \/ SomeRow(Section(data.drugs), LAMBDA drug :
            \/ ToISOStringThrows(Cell(drug, ExpDateWord))
            \/ TruthyCell(Cell(drug, MfgDateWord)) /\ ToISOStringThrows(Cell(drug, MfgDateWord))
            \/ TruthyCell(Cell(drug, PriceWord)) /\ ToFixedThrows(Cell(drug, PriceWord)))
       \/ SomeRow(Section(data.expiring_soon), LAMBDA drug :
            ToISOStringThrows(Cell(drug, ExpDateWord)))
       \/ SomeRow(Section(data.orders), LAMBDA order :
            TruthyCell(Cell(order, TotalAmountWord))
              /\ ToFixedThrows(Cell(order, TotalAmountWord)))
       \/ SomeRow(Section(data.order_items), LAMBDA item : ToFixedThrows(Cell(item, UnitPriceWord)))

\* the outcomes of the call of the text generation service
AiOutcomes == {"ok", "no_content", "not_ok", "timeout", "failed"}
\* the text generation, the formatter in its place when the call fails in
\* any way, and res.json(..); an error of the formatter reaches the outer
\* catch block
ChatReply(p) ==
  /\ pc[p] = "chat_reply"
  /\ \E ai \in AiOutcomes :
       LET r == [Reply("handleChatbotQuery", 200, "") EXCEPT
                   !.ai = ai, !.data = loc[p].data, !.sent = loc[p].sent, !.role = args[p].role,
                   !.answer = loc[p].answer, !.sql = loc[p].sql, !.fetched = loc[p].fetched]
       IN IF ai = "ok" THEN Finish(p, [r EXCEPT !.reply = "validated"])
          ELSE IF FormatThrows(loc[p].fetched)
            THEN Finish(p, [r EXCEPT !.code = 500, !.reply = "technical difficulties"])
          ELSE Finish(p, [r EXCEPT !.reply = "formatted"])
  /\ UNCHANGED <<db, tx, nreq, hist, trace>>

\* ================================================================== systems
\* the controllers entered at the route
UpdSelect(p) == UpdSelectVia(p, "route")
ApproveAllBegin(p) == ApproveAllBeginVia(p, "route")
RecBegin(p) == RecBeginVia(p, "route")
DelBegin(p) == DelBeginVia(p, "route")
ImportBeginAt(p) == ImportBeginVia(p, "route")

\* the statements of updateOrderItemStatus after its first
UpdSteps(p) ==
  \/ UpdBegin(p)
  \/ UpdQuantity(p)
  \/ UpdStatus(p)
  \/ UpdStock(p)
  \/ UpdRefuse(p)
  \/ UpdCommit(p)
  \/ UpdCatch(p)
\* the statements of approveAllItems after its first
ApproveAllSteps(p) ==
  \/ ApproveAllSelect(p)
  \/ ApproveAllEmpty(p)
  \/ ApproveAllItem(p)
  \/ ApproveAllStock(p)
  \/ ApproveAllCommit(p)
  \/ ApproveAllCatch(p)
\* the statements of recordDailyDispensing after its first
RecSteps(p) ==
  \/ RecDrug(p)
  \/ RecExisting(p)
  \/ RecSummary(p)
  \/ RecStock(p)
  \/ RecCommit(p)
  \/ RecUpdated(p)
  \/ RecCatch(p)
\* the statements of deleteDispensingRecord after its first
DelSteps(p) ==
  \/ DelSelect(p)
  \/ DelStock(p)
  \/ DelDelete(p)
  \/ DelCommit(p)
  \/ DelCatch(p)
\* the statements of importDispensingRecords
ImportSteps(p) ==
  \/ ImportBegin(p)
  \/ ImportDrug(p)
  \/ ImportExisting(p)
  \/ ImportSummary(p)
  \/ ImportStock(p)
  \/ ImportCommit(p)
  \/ ImportCatch(p)

NextOrders ==
  \/ \E p \in Procs : UpdSelect(p)
  \/ \E p \in Procs : UpdSteps(p)
  \/ \E p \in Procs : ApproveAllBegin(p)
  \/ \E p \in Procs : ApproveAllSteps(p)

Spec == Init /\ [][NextOrders]_vars

\* single-item updates in a race
NextRace ==
  \/ \E p \in Procs : UpdSelect(p)
  \/ \E p \in Procs : UpdSteps(p)
SpecRace == InitRace /\ [][NextRace]_vars

NextDisp ==
  \/ \E p \in Procs : RecBegin(p)
  \/ \E p \in Procs : RecSteps(p)
  \/ \E p \in Procs : DelBegin(p)
  \/ \E p \in Procs : DelSteps(p)
  \/ \E p \in Procs : Refuse(p)
  \/ \E p \in Procs : ImportBeginAt(p)
  \/ \E p \in Procs : ImportSteps(p)

InitDisp == InitDb /\ nreq = [p \in Procs |-> IF p = 1 THEN MaxDisp ELSE 0]
SpecDisp == InitDisp /\ [][NextDisp]_vars

\* the databases the requests find: those of FreshDbs, and those with one
\* dispensing record of the current date, written by an earlier request
EarlierRecord(d) ==
  Commit(d, DeductStock(d, InsertSummary(Begin(NoTx), d.nextId, 1, 1, CurrentDate, "OPD"),
                        1, 1))
EarlierDbs == {EarlierRecord(d) : d \in {f \in FreshDbs : f.stock[1] >= 1}}

\* dispensing requests in a race: the pharmacy of drug 1 records, imports and
\* deletes for the current date and the default category
RaceRecordRequests ==
  {rq \in RecordRequests : /\ rq.caller = 1 /\ rq.drug_id = 1
                           /\ rq.quantity_dispensed >= 1
                           /\ rq.dispensing_date = Absent /\ rq.category = Absent}
RaceImportRequests ==
  {rq \in ImportRequests : /\ rq.caller = 1 /\ rq.file
                           /\ rq.dispensing_date = Absent /\ rq.category = Absent
                           /\ Len(rq.results) = 1
                           /\ rq.results[1].drug_name = "Amoxicillin "
                           /\ rq.results[1].quantity_dispensed = "1"}
RaceRecBegin(p) == RecBeginFrom(p, "route", RaceRecordRequests)
RaceDelBegin(p) == DelBeginFrom(p, "route", {1})
RaceImportBegin(p) == ImportBeginFrom(p, "route", RaceImportRequests)

\* --------------------------------------------- approve-all calls in a race
NextLock ==
  \/ \E p \in Procs : ApproveAllBegin(p)
  \/ \E p \in Procs : ApproveAllSteps(p)
SpecLock == InitRace /\ [][NextLock]_vars

\* the same calls under a fair scheduler: a call that can send its next
\* statement (its SELECT once the rows are unlocked, its UPDATEs and COMMIT)
\* sends it
SpecLockFair ==
  /\ SpecLock
  /\ \A p \in Procs : WF_vars(ApproveAllSteps(p))

\* every kind of request, handled one after the other
InitAll == InitDb /\ nreq = [p \in Procs |-> IF p = 1 THEN MaxAll ELSE 0]

NextAll ==
  \/ NextOrders
  \/ NextDisp

SpecAll == InitAll /\ [][NextAll]_vars
\* ------------------------------------------------------------ authorizeRole
PharmacyRole == <<"p", "h", "a", "r", "m", "a", "c", "y">>
InstituteRole == <<"i", "n", "s", "t", "i", "t", "u", "t", "e">>
AdminRole == <<"a", "d", "m", "i", "n">>
\* req.user.role as verifyToken leaves it: absent (no user, a user without
\* role or with the empty text as role) or a text in any case
RequestRoles ==
  {Absent, PharmacyRole, InstituteRole, AdminRole, <<"P", "h", "a", "r", "m", "a", "c", "y">>,
   <<"A", "D", "M", "I", "N">>, <<"I", "n", "s", "t", "i", "t", "u", "t", "e">>,
   <<"u", "s", "e", "r">>}
\* router.<method>(path, verifyToken, authorizeRole(..), controller)
sellerRoutes == {"updateOrderItemStatus", "approveAllItems"}
dailyDispensingRoutes ==
  {"recordDailyDispensing", "importDispensingRecords", "deleteDispensingRecord"}
allowedRoles(route) ==
  IF route \in sellerRoutes THEN {InstituteRole, AdminRole} ELSE {PharmacyRole}
\* variant: the roles compared as they are written
authorizeRoleExact(allowed, role) ==
  IF role = Absent THEN [next |-> FALSE, code |-> 401,
                         message |-> "User not authenticated or missing role"]
  ELSE IF role \notin allowed
    THEN [next |-> FALSE, code |-> 403, message |-> "Access Denied"]
  ELSE [next |-> TRUE, code |-> 0, message |-> ""]
\* (req, res, next) => ..: what the middleware does with a request
authorizeRole(allowed, role) ==
  IF role = Absent THEN [next |-> FALSE, code |-> 401,
                         message |-> "User not authenticated or missing role"]
  ELSE IF ToLowerCase(role) \notin {ToLowerCase(r) : r \in allowed}
    THEN [next |-> FALSE, code |-> 403, message |-> "Access Denied"]
  ELSE [next |-> TRUE, code |-> 0, message |-> ""]

\* a request arrives at a guarded route
Guard(p) ==
  /\ Free(p)
  /\ \E route \in sellerRoutes \cup dailyDispensingRoutes, role \in RequestRoles :
       LET out == authorizeRole(allowedRoles(route), role)
       IN IF out.next
            THEN /\ pc' = [pc EXCEPT ![p] = "authorized"]
                 /\ args' = [args EXCEPT ![p] = [NoArgs EXCEPT !.op = route, !.role = role]]
                 /\ loc' = loc
                 /\ last' = NoResp
          ELSE Finish(p, [Reply(route, out.code, out.message) EXCEPT !.role = role])
  /\ Take(p)
  /\ UNCHANGED <<db, tx, hist>>

\* the controllers entered behind the middleware
GuardedUpdSelect(p) == UpdSelectVia(p, "guard")
GuardedApproveAllBegin(p) == ApproveAllBeginVia(p, "guard")
GuardedRecBegin(p) == RecBeginVia(p, "guard")
GuardedDelBegin(p) == DelBeginVia(p, "guard")
GuardedImportBegin(p) == ImportBeginVia(p, "guard")

InitGuard ==
  /\ db \in FreshDbs \cup EarlierDbs
  /\ Idle
  /\ trace = FALSE
  /\ nreq = [p \in Procs |-> IF p = 1 THEN MaxGuard ELSE 0]
NextGuard ==
  \/ \E p \in Procs : Guard(p)
  \/ \E p \in Procs : GuardedUpdSelect(p)
  \/ \E p \in Procs : UpdSteps(p)
  \/ \E p \in Procs : GuardedApproveAllBegin(p)
  \/ \E p \in Procs : ApproveAllSteps(p)
  \/ \E p \in Procs : GuardedRecBegin(p)
  \/ \E p \in Procs : RecSteps(p)
  \/ \E p \in Procs : GuardedDelBegin(p)
  \/ \E p \in Procs : DelSteps(p)
  \/ \E p \in Procs : Refuse(p)
  \/ \E p \in Procs : GuardedImportBegin(p)
  \/ \E p \in Procs : ImportSteps(p)
SpecGuard == InitGuard /\ [][NextGuard]_vars

\* ------------------------------------------------------------ the chatbot
InitChat == InitDb /\ nreq = [p \in Procs |-> IF p = 1 THEN MaxChat ELSE 0]

NextChat ==
  \/ \E p \in Procs : ChatBegin(p)
  \/ \E p \in Procs : ChatGenerate(p)
  \/ \E p \in Procs : ChatQuery(p)
  \/ \E p \in Procs : ChatPredefined(p)
  \/ \E p \in Procs : ChatReply(p)

SpecChat == InitChat /\ [][NextChat]_vars
\* ---------------------------------------------------------- drugController
\* name, batch_no and stock of a request body
BodyNames == {Absent, <<"amoxicillin">>, <<"paracetamol">>}
BodyBatches == {Absent, <<"B1">>}
BodyStocks == {Absent} \cup {<<n>> : n \in -1..MaxStock}
\* SQL NULL in a text column
NullText == ""
\* x || null
OrNull(f) == IF f = Absent \/ f[1] = "" THEN NullText ELSE f[1]
\* stock || 0
OrZero(f) == IF Truthy(f) THEN f[1] ELSE 0
\* the next value of the serial of drugs that no open transaction has taken
FreshDrugId ==
  LET used == UNION {{r.id : r \in tx[q].inserted} : q \in Procs}
  IN CHOOSE n \in db.nextDrug..(db.nextDrug + Cardinality(used)) :
       n \notin used /\ \A m \in db.nextDrug..(n - 1) : m \in used
\* a statement sent outside a transaction is committed when it returns
Autocommit(d1) ==
  /\ db' = d1
  /\ hist' = HistAfter(db, d1)
  /\ UNCHANGED tx

\* WHERE id = $8 AND created_by = $9 for institute and pharmacy, WHERE id = $8
\* for every other role
OwnRow(d, id, role, userId) ==
  id \in d.drugs /\ (role \in {"institute", "pharmacy"} => DrugOwner(d, id) = userId)
\* UPDATE drugs SET drug_type = $1, name = $2, .., stock = $4, .., batch_no = $6, ..
\*   WHERE id = $8 [AND created_by = $9] RETURNING *
UpdateDrugRow(d, id, name, stock, batch_no, role, userId) ==
  IF OwnRow(d, id, role, userId)
    THEN <<[d EXCEPT !.name[id] = name[1], !.stock[id] = OrZero(stock),
                     !.batch_no[id] = OrNull(batch_no)]>>
    ELSE <<>>
\* the whole of updateDrug: one statement, sent without BEGIN
updateDrug(p) ==
  /\ Free(p)
  /\ \E id \in Drugs \cup {NoDrug}, caller \in Users, role \in Roles, name \in BodyNames,
        stock \in BodyStocks, batch_no \in BodyBatches, fault \in BOOLEAN :
       LET rows == UpdateDrugRow(db, id, name, stock, batch_no, role, caller)
           sent(ok) == Noted(NoLoc, "UPDATE drugs", ok).statements
       IN IF name = Absent
            THEN /\ Autocommit(db)
                 /\ Finish(p, Reply("updateDrug", 400, "Drug name is required"))
          ELSE IF fault
            THEN /\ Autocommit(db)
                 /\ Finish(p, [Reply("updateDrug", 500, "Internal server error")
                                 EXCEPT !.statements = sent(FALSE)])
          ELSE IF rows = <<>>
            THEN /\ Autocommit(db)
                 /\ Finish(p, [Reply("updateDrug", 404, "Drug not found")
                                 EXCEPT !.statements = sent(TRUE)])
          ELSE /\ id \notin LockedDrugs(p)
               /\ Autocommit(rows[1])
               /\ Finish(p, [Reply("updateDrug", 200, "") EXCEPT !.statements = sent(TRUE)])
  /\ Take(p)

\* INSERT INTO drugs (.., name, .., stock, .., created_by, batch_no, ..) VALUES (..)
\*   RETURNING *, the id taken from the serial
InsertDrugRow(d, id, name, batch_no, stock, created_by) ==
  [d EXCEPT !.drugs = @ \cup {id}, !.name[id] = name, !.batch_no[id] = batch_no,
            !.stock[id] = stock, !.created_by[id] = created_by, !.nextDrug = id + 1]
\* how mfg_date and exp_date of the body compare: one of them absent, the
\* first before the second, or not
BodyDates == {"absent", "ordered", "reversed"}
\* the whole of addDrug: one statement, sent without BEGIN
addDrug(p) ==
  /\ Free(p)
  /\ FreshDrugId <= MaxDrugs
  /\ \E caller \in Users, name \in BodyNames, stock \in BodyStocks,
        batch_no \in BodyBatches, dates \in BodyDates, fault \in BOOLEAN :
       LET sent(ok) == Noted(NoLoc, "INSERT drugs", ok).statements
       IN IF name = Absent
            THEN /\ Autocommit(db)
                 /\ Finish(p, Reply("addDrug", 400, "Drug name is required"))
          ELSE IF dates = "reversed"
            THEN /\ Autocommit(db)
                 /\ Finish(p, Reply("addDrug", 400,
                                    "Manufacturing date must be before expiration date"))
          ELSE IF fault
            THEN /\ Autocommit(db)
                 /\ Finish(p, [Reply("addDrug", 500, "Internal server error")
                                 EXCEPT !.statements = sent(FALSE)])
          ELSE /\ Autocommit(InsertDrugRow(db, FreshDrugId, name[1], OrNull(batch_no),
                                           OrZero(stock), caller))
               /\ Finish(p, [Reply("addDrug", 201, "") EXCEPT !.statements = sent(TRUE)])
  /\ Take(p)

\* DELETE FROM drugs WHERE id = $1 [AND created_by = $2] RETURNING *; the rows
\* of other tables that name the drug stay as they are
DeleteDrugRow(d, id, role, userId) ==
  IF OwnRow(d, id, role, userId)
    THEN <<[d EXCEPT !.drugs = @ \ {id}, !.name[id] = "", !.batch_no[id] = NullText,
                     !.stock[id] = 0, !.created_by[id] = NoUser]>>
    ELSE <<>>
\* the whole of deleteDrug: one statement, sent without BEGIN; a foreign key
\* that refuses the DELETE is among the errors the statement can raise
deleteDrug(p) ==
  /\ Free(p)
  /\ \E id \in Drugs \cup {NoDrug}, caller \in Users, role \in Roles, fault \in BOOLEAN :
       LET rows == DeleteDrugRow(db, id, role, caller)
           sent(ok) == Noted(NoLoc, "DELETE drugs", ok).statements
       IN IF fault
            THEN /\ Autocommit(db)
                 /\ Finish(p, [Reply("deleteDrug", 500, "Internal server error")
                                 EXCEPT !.statements = sent(FALSE)])
          ELSE IF rows = <<>>
            THEN /\ Autocommit(db)
                 /\ Finish(p, [Reply("deleteDrug", 404, "Drug not found")
                                 EXCEPT !.statements = sent(TRUE)])
          ELSE /\ id \notin LockedDrugs(p)
               /\ Autocommit(rows[1])
               /\ Finish(p, [Reply("deleteDrug", 200, "Drug deleted successfully")
                               EXCEPT !.statements = sent(TRUE)])
  /\ Take(p)

\* -------------------------------------------------------- importController
\* the rows of an uploaded catalogue CSV
CatRecords ==
  {[Name |-> "amoxicillin", Drug_Type |-> "tablet", Batch_No |-> "B1", Stock |-> "2",
    Price |-> "1"],
   [Name |-> "cetirizine", Drug_Type |-> "tablet", Batch_No |-> "B9", Stock |-> "2",
    Price |-> "1"],
   [Name |-> "", Drug_Type |-> "tablet", Batch_No |-> "B1", Stock |-> "1", Price |-> "1"],
   [Name |-> "amoxicillin", Drug_Type |-> "tablet", Batch_No |-> "B1", Stock |-> "-1",
    Price |-> "1"],
   [Name |-> "cetirizine", Drug_Type |-> "", Batch_No |-> "B9", Stock |-> "1",
    Price |-> "abc"]}
CatFiles == UNION {[1..n -> CatRecords] : n \in 0..MaxRows}
\* req.file: no file, a file whose path is not there, an uploaded file
Uploads == {"none", "missing", "uploaded"}
\* fs.unlinkSync(req.file.path): done, or it throws because the file is gone,
\* or because it is there and cannot be removed
Unlinks == {"unlinked", "gone", "refused"}
\* value === undefined || value === null || value === '' || value.trim() === ''
Blank(t) == Trim(t) = ""
\* parseFloat of the price texts
ParseFloatText(t) == ParseIntText(t)
\* errors.push({row: index + 2, error, data})
CatError(l, k, reason) == [l EXCEPT !.errors = Append(@, [row |-> k + 1, reason |-> reason])]
\* UPDATE drugs SET .., stock = $3, .. WHERE id = $9
SetStock(d, t, x, n) == [HoldDrug(d, t, x) EXCEPT !.stock[x] = n]
\* INSERT INTO drugs (..) VALUES (..) RETURNING id, in a transaction
InsertDrug(d, t, id, name, batch_no, stock, created_by) ==
  [t EXCEPT !.drugs = @ \cup {id}, !.stock[id] = stock,
            !.inserted = @ \cup {[id |-> id, name |-> name, batch_no |-> batch_no,
                                  created_by |-> created_by]}]
\* SELECT * FROM drugs WHERE name = $1 AND batch_no = $2 AND created_by = $3
ExistingDrug(d, name, batch_no, userId) ==
  {x \in d.drugs : d.name[x] = name /\ d.batch_no[x] = batch_no /\ d.created_by[x] = userId}

\* the checks and the parse of the file that both importDrugs begin with: the
\* answer of a refused upload, or where the handler goes on
Arrival(file, stream, results, unlink) ==
  IF file = "none" THEN [to |-> "answer", code |-> 400, message |-> "No file uploaded"]
  ELSE IF file = "missing"
    THEN [to |-> "answer", code |-> 400, message |-> "Uploaded file not found"]
  ELSE IF stream = "unreadable" THEN [to |-> "stop", code |-> NoResponse, message |-> ""]
  ELSE IF stream = "parser_error" THEN [to |-> "catch", code |-> 0, message |-> ""]
  ELSE IF results = <<>>
    THEN IF unlink = "unlinked"
           THEN [to |-> "answer", code |-> 400, message |-> "No data found in CSV file"]
           ELSE [to |-> "catch", code |-> 0, message |-> ""]
  ELSE [to |-> "rows", code |-> 0, message |-> ""]
\* the locals of an import of the catalogue when its loop or its catch block begins
ArrivalLoc(results, unlink) ==
  [NoLoc EXCEPT !.rows = results, !.total = Len(results), !.err = unlink]

\* ------------------------------------- importDrugs, in a transaction
\* the loop from results[k] up to its next await: rows that lack a required
\* field or hold a stock or price that is no number or negative are put down
\* in errors, the first other row is next, and COMMIT follows the last row
RECURSIVE CatFrom(_, _)
CatFrom(l, k) ==
  IF k > Len(l.rows) THEN [label |-> "cat_commit", loc |-> [l EXCEPT !.k = k]]
  ELSE LET row == l.rows[k]
           stock == ParseIntText(row.Stock)
           price == ParseFloatText(row.Price)
       IN IF \E c \in {"Name", "Drug_Type", "Batch_No", "Stock", "Price"} : Blank(row[c])
            THEN CatFrom(CatError(l, k, "Missing required fields"), k + 1)
          ELSE IF IsNaN(stock) \/ stock[1] < 0
            THEN CatFrom(CatError(l, k, "Invalid stock value"), k + 1)
          ELSE IF IsNaN(price) \/ price[1] < 0
            THEN CatFrom(CatError(l, k, "Invalid price value"), k + 1)
          ELSE [label |-> "cat_type", loc |-> [l EXCEPT !.k = k]]
\* catch (error) of the row: the statement s raised
CatRowFailed(p, s) ==
  LET next == CatFrom(CatError(loc[p], loc[p].k, "Database error"), loc[p].k + 1)
  IN /\ At(p, next.label, args[p], Noted(next.loc, s, FALSE))
     /\ Writes(p, Abort(tx[p]))
\* catch (typeError): the statement s of the type and name linking raised, and
\* the row goes on with the lookup of the drug
CatTypeFailed(p, s) ==
  /\ At(p, "cat_existing", args[p], Noted(loc[p], s, FALSE))
  /\ Writes(p, Abort(tx[p]))
\* the name, type and batch number of results[k], trimmed
CatName(l) == Trim(l.rows[l.k].Name)
CatType(l) == Trim(l.rows[l.k].Drug_Type)
CatBatch(l) == Trim(l.rows[l.k].Batch_No)

\* importDrugs up to its BEGIN; the rows fit the ids of the model
importDrugs(p) ==
  /\ Free(p)
  /\ \E caller \in Users, file \in Uploads, results \in CatFiles,
        stream \in StreamOutcomes, unlink \in Unlinks :
       LET a == [NoArgs EXCEPT !.op = "importDrugs", !.caller = caller]
           w == Arrival(file, stream, results, unlink)
       IN /\ FreshDrugId + Len(results) - 1 <= MaxDrugs
          /\ IF w.to = "answer" THEN Finish(p, Reply(a.op, w.code, w.message))
             ELSE IF w.to = "stop" THEN Stops(p, a)
             ELSE IF w.to = "catch" THEN At(p, "catch", a, ArrivalLoc(results, unlink))
             ELSE At(p, "cat_begin", a, ArrivalLoc(results, ""))
  /\ Autocommit(db)
  /\ Take(p)

\* await db.query('BEGIN')
ImportDrugsBegin(p) ==
  /\ pc[p] = "cat_begin"
  /\ \E fault \in BOOLEAN :
       IF fault THEN Raised(p, "BEGIN") /\ Writes(p, tx[p])
       ELSE /\ Done(p, "BEGIN", CatFrom(loc[p], 1).label, CatFrom(loc[p], 1).loc)
            /\ Writes(p, Begin(tx[p]))
  /\ UNCHANGED <<nreq, trace>>

\* await db.query('SELECT id FROM drug_types WHERE type_name = $1')
ImportDrugsType(p) ==
  /\ pc[p] = "cat_type"
  /\ \E fault \in BOOLEAN :
       IF fault \/ Aborted(tx[p]) THEN CatTypeFailed(p, "SELECT")
       ELSE /\ Done(p, "SELECT",
                    IF CatType(loc[p]) \in View(db, tx[p]).drug_types
                      THEN "cat_name" ELSE "cat_type_insert", loc[p])
            /\ Writes(p, tx[p])
  /\ UNCHANGED <<nreq, trace>>

\* await db.query('INSERT INTO drug_types (type_name) VALUES ($1) RETURNING id')
ImportDrugsTypeInsert(p) ==
  /\ pc[p] = "cat_type_insert"
  /\ \E fault \in BOOLEAN :
       IF fault \/ Aborted(tx[p]) THEN CatTypeFailed(p, "INSERT drug_types")
       ELSE /\ Done(p, "INSERT drug_types", "cat_name", loc[p])
            /\ Writes(p, [tx[p] EXCEPT !.types = @ \cup {CatType(loc[p])}])
  /\ UNCHANGED <<nreq, trace>>

\* await db.query('SELECT id FROM drug_names WHERE type_id = $1 AND name = $2')
ImportDrugsName(p) ==
  /\ pc[p] = "cat_name"
  /\ \E fault \in BOOLEAN :
       IF fault \/ Aborted(tx[p]) THEN CatTypeFailed(p, "SELECT")
       ELSE /\ Done(p, "SELECT",
                    IF <<CatType(loc[p]), CatName(loc[p])>> \in View(db, tx[p]).drug_names
                      THEN "cat_existing" ELSE "cat_name_insert", loc[p])
            /\ Writes(p, tx[p])
  /\ UNCHANGED <<nreq, trace>>

\* await db.query('INSERT INTO drug_names (type_id, name) VALUES ($1, $2) ..')
\* and drugNamesAdded++
ImportDrugsNameInsert(p) ==
  /\ pc[p] = "cat_name_insert"
  /\ \E fault \in BOOLEAN :
       IF fault \/ Aborted(tx[p]) THEN CatTypeFailed(p, "INSERT drug_names")
       ELSE /\ Done(p, "INSERT drug_names", "cat_existing",
                    [loc[p] EXCEPT !.drugNamesAdded = @ + 1])
            /\ Writes(p, [tx[p] EXCEPT
                            !.names = @ \cup {<<CatType(loc[p]), CatName(loc[p])>>}])
  /\ UNCHANGED <<nreq, trace>>

\* await db.query(SELECT * FROM drugs WHERE name = $1 AND batch_no = $2 AND
\* created_by = $3): the drug of the caller with the row's name and batch
ImportDrugsExisting(p) ==
  /\ pc[p] = "cat_existing"
  /\ LET l == loc[p]
         S == ExistingDrug(View(db, tx[p]), CatName(l), CatBatch(l), args[p].caller)
     IN \E fault \in BOOLEAN, x \in IF S = {} THEN {NoDrug} ELSE S :
          IF fault \/ Aborted(tx[p]) THEN CatRowFailed(p, "SELECT")
          ELSE /\ Done(p, "SELECT", IF x = NoDrug THEN "cat_other" ELSE "cat_update",
                       [l EXCEPT !.drug = x])
               /\ Writes(p, tx[p])
  /\ UNCHANGED <<nreq, trace>>

\* await db.query(UPDATE drugs SET .., stock = $3, .. WHERE id = $9 RETURNING id)
\* and updatedCount++; updateResult.rows[0].id, read after the count, throws
\* when the row is gone
ImportDrugsUpdate(p) ==
  /\ pc[p] = "cat_update"
  /\ LET l == loc[p]
         counted == [l EXCEPT !.updatedCount = @ + 1, !.drug = NoDrug]
         gone == CatFrom(CatError(counted, l.k, "TypeError"), l.k + 1)
     IN \E fault \in BOOLEAN :
          IF fault \/ Aborted(tx[p]) THEN CatRowFailed(p, "UPDATE drugs")
          ELSE IF l.drug \notin View(db, tx[p]).drugs
            THEN /\ Done(p, "UPDATE drugs", gone.label, gone.loc)
                 /\ Writes(p, tx[p])
          ELSE /\ l.drug \notin LockedDrugs(p)
               /\ Done(p, "UPDATE drugs", CatFrom(counted, l.k + 1).label,
                       CatFrom(counted, l.k + 1).loc)
               /\ Writes(p, SetStock(db, tx[p], l.drug, ParseIntText(l.rows[l.k].Stock)[1]))
  /\ UNCHANGED <<nreq, trace>>

\* await db.query(SELECT * FROM drugs WHERE name = $1 AND batch_no = $2 AND
\* created_by != $3): its rows are logged only
ImportDrugsOther(p) ==
  /\ pc[p] = "cat_other"
  /\ \E fault \in BOOLEAN :
       IF fault \/ Aborted(tx[p]) THEN CatRowFailed(p, "SELECT")
       ELSE Done(p, "SELECT", "cat_insert", loc[p]) /\ Writes(p, tx[p])
  /\ UNCHANGED <<nreq, trace>>

\* await db.query(INSERT INTO drugs (..) VALUES (..) RETURNING id) and addedCount++
ImportDrugsInsert(p) ==
  /\ pc[p] = "cat_insert"
  /\ LET l == loc[p]
         counted == [l EXCEPT !.addedCount = @ + 1]
     IN \E fault \in BOOLEAN :
          IF fault \/ Aborted(tx[p]) THEN CatRowFailed(p, "INSERT drugs")
          ELSE /\ FreshDrugId <= MaxDrugs
               /\ Done(p, "INSERT drugs", CatFrom(counted, l.k + 1).label,
                       CatFrom(counted, l.k + 1).loc)
               /\ Writes(p, InsertDrug(db, tx[p], FreshDrugId, CatName(l), CatBatch(l),
                                       ParseIntText(l.rows[l.k].Stock)[1], args[p].caller))
  /\ UNCHANGED <<nreq, trace>>

\* the answer of an import of the catalogue
Imported(l, message) ==
  [Reply("importDrugs", 200, message) EXCEPT
     !.added = l.addedCount, !.updated = l.updatedCount, !.total = l.total,
     !.errors = l.errors]
\* await db.query('COMMIT'), fs.unlinkSync(req.file.path) and the answer
ImportDrugsCommit(p) ==
  /\ pc[p] = "cat_commit"
  /\ \E fault \in BOOLEAN, unlink \in Unlinks :
       IF fault THEN Raised(p, "COMMIT") /\ Writes(p, Abort(tx[p]))
       ELSE /\ Commits(p)
            /\ IF unlink = "unlinked"
                 THEN Answer(p, "COMMIT",
                             [Imported(loc[p], "CSV import completed") EXCEPT
                                !.op = args[p].op])
                 ELSE Done(p, "COMMIT", "catch",
                           [loc[p] EXCEPT !.persisted = Commit(db, tx[p]) # db,
                                          !.err = unlink])
  /\ UNCHANGED <<nreq, trace>>

\* catch (error): await db.query('ROLLBACK'), then the file is removed when it
\* is there, which throws when it cannot be, and the 500 answer
ImportDrugsCatch(p) ==
  /\ pc[p] = "catch" /\ args[p].op = "importDrugs"
  /\ \E fault, refused \in BOOLEAN :
       /\ loc[p].err # "" => refused = (loc[p].err = "refused")
       /\ IF fault \/ refused
            THEN Finish(p, [Reply(args[p].op, NoResponse, "") EXCEPT
                              !.statements = Noted(loc[p], "ROLLBACK", ~fault).statements])
          ELSE Answer(p, "ROLLBACK", Reply(args[p].op, 500, "Failed to process CSV file"))
  /\ RollsBack(p)
  /\ UNCHANGED <<nreq, trace>>

\* the statements of importDrugs
ImportDrugsSteps(p) ==
  \/ ImportDrugsBegin(p)
  \/ ImportDrugsType(p)
  \/ ImportDrugsTypeInsert(p)
  \/ ImportDrugsName(p)
  \/ ImportDrugsNameInsert(p)
  \/ ImportDrugsExisting(p)
  \/ ImportDrugsUpdate(p)
  \/ ImportDrugsOther(p)
  \/ ImportDrugsInsert(p)
  \/ ImportDrugsCommit(p)
  \/ ImportDrugsCatch(p)

\* ------------------------------ importDrugs of the first module: INSERT only
\* row.Drug_Type || .. || null, and drugType && drugType.trim() !== ''
HasType(row) == ~Blank(row.Drug_Type)
\* parseInt(row.Stock || row.stock) || 0
StockOrZero(row) == IF IsNaN(ParseIntText(row.Stock)) THEN 0 ELSE ParseIntText(row.Stock)[1]
\* the loop from results[k] up to its next await: a row without a name is put
\* down in errors, a row with a drug type links type and name first, any
\* other row is inserted
RECURSIVE InsFrom(_, _)
InsFrom(l, k) ==
  IF k > Len(l.rows) THEN [label |-> "ins_end", loc |-> [l EXCEPT !.k = k]]
  ELSE IF l.rows[k].Name = ""
    THEN InsFrom(CatError(l, k, "Drug name is required"), k + 1)
  ELSE [label |-> IF HasType(l.rows[k]) THEN "ins_type" ELSE "ins_drug",
        loc |-> [l EXCEPT !.k = k]]
\* what follows the last row without an await: the file is removed and the
\* answer sent; when unlinkSync throws, the catch block removes the file when
\* it is there, which throws again when it cannot be, and answers 500
InsEnd(p, a, l, unlink) ==
  Finish(p, IF unlink = "unlinked"
              THEN [Imported(l, "CSV import completed") EXCEPT
                      !.op = a.op, !.statements = l.statements]
            ELSE [Reply(a.op, IF unlink = "gone" THEN 500 ELSE NoResponse,
                        IF unlink = "gone" THEN "Failed to process CSV file" ELSE "")
                    EXCEPT !.statements = l.statements])
\* the handler goes on from results[k] with the locals l
InsNext(p, a, l, k) ==
  \E unlink \in Unlinks :
    IF InsFrom(l, k).label = "ins_end" THEN InsEnd(p, a, InsFrom(l, k).loc, unlink)
    ELSE At(p, InsFrom(l, k).label, a, InsFrom(l, k).loc)

\* the first importDrugs up to its first statement
importDrugsFirst(p) ==
  /\ Free(p)
  /\ \E caller \in Users, file \in Uploads, results \in CatFiles,
        stream \in StreamOutcomes, unlink \in Unlinks :
       LET a == [NoArgs EXCEPT !.op = "importDrugsFirst", !.caller = caller]
           w == Arrival(file, stream, results, unlink)
       IN /\ FreshDrugId + Len(results) - 1 <= MaxDrugs
          /\ IF w.to = "answer" THEN Finish(p, Reply(a.op, w.code, w.message))
             ELSE IF w.to = "stop" THEN Stops(p, a)
             ELSE IF w.to = "catch"
               THEN InsEnd(p, a, NoLoc, IF unlink = "refused" THEN "refused" ELSE "gone")
             ELSE InsNext(p, a, ArrivalLoc(results, ""), 1)
  /\ Autocommit(db)
  /\ Take(p)

\* await db.query('SELECT id FROM drug_types WHERE type_name = $1'); an error
\* of the linking is caught and the row goes on with its INSERT
InsertDrugsType(p) ==
  /\ pc[p] = "ins_type"
  /\ \E fault \in BOOLEAN :
       IF fault THEN At(p, "ins_drug", args[p], Noted(loc[p], "SELECT", FALSE))
       ELSE Done(p, "SELECT", IF CatType(loc[p]) \in db.drug_types
                                THEN "ins_name" ELSE "ins_type_insert", loc[p])
  /\ Autocommit(db)
  /\ UNCHANGED <<nreq, trace>>

\* await db.query('INSERT INTO drug_types (type_name) VALUES ($1) RETURNING id')
InsertDrugsTypeInsert(p) ==
  /\ pc[p] = "ins_type_insert"
  /\ \E fault \in BOOLEAN :
       IF fault THEN /\ At(p, "ins_drug", args[p], Noted(loc[p], "INSERT drug_types", FALSE))
                     /\ Autocommit(db)
       ELSE /\ Done(p, "INSERT drug_types", "ins_name", loc[p])
            /\ Autocommit([db EXCEPT !.drug_types = @ \cup {CatType(loc[p])}])
  /\ UNCHANGED <<nreq, trace>>

\* await db.query('SELECT id FROM drug_names WHERE type_id = $1 AND name = $2')
InsertDrugsName(p) ==
  /\ pc[p] = "ins_name"
  /\ \E fault \in BOOLEAN :
       IF fault THEN At(p, "ins_drug", args[p], Noted(loc[p], "SELECT", FALSE))
       ELSE Done(p, "SELECT", IF <<CatType(loc[p]), CatName(loc[p])>> \in db.drug_names
                                THEN "ins_drug" ELSE "ins_name_insert", loc[p])
  /\ Autocommit(db)
  /\ UNCHANGED <<nreq, trace>>

\* await db.query('INSERT INTO drug_names (type_id, name) VALUES ($1, $2) ..')
\* and drugNamesAdded++
InsertDrugsNameInsert(p) ==
  /\ pc[p] = "ins_name_insert"
  /\ \E fault \in BOOLEAN :
       IF fault THEN /\ At(p, "ins_drug", args[p], Noted(loc[p], "INSERT drug_names", FALSE))
                     /\ Autocommit(db)
       ELSE /\ Done(p, "INSERT drug_names", "ins_drug",
                    [loc[p] EXCEPT !.drugNamesAdded = @ + 1])
            /\ Autocommit([db EXCEPT
                             !.drug_names = @ \cup {<<CatType(loc[p]), CatName(loc[p])>>}])
  /\ UNCHANGED <<nreq, trace>>

\* await db.query(INSERT INTO drugs (..) VALUES (..) RETURNING id) and
\* successCount++, or the error of the row put down in errors
InsertDrugsRow(p) ==
  /\ pc[p] = "ins_drug"
  /\ LET l == loc[p]
         row == l.rows[l.k]
     IN \E fault \in BOOLEAN :
          IF fault
            THEN /\ InsNext(p, args[p],
                            Noted(CatError(l, l.k, "Database error"), "INSERT drugs", FALSE),
                            l.k + 1)
                 /\ Autocommit(db)
          ELSE /\ FreshDrugId <= MaxDrugs
               /\ InsNext(p, args[p],
                          Noted([l EXCEPT !.addedCount = @ + 1], "INSERT drugs", TRUE),
                          l.k + 1)
               /\ Autocommit(InsertDrugRow(db, FreshDrugId, row.Name,
                                           IF row.Batch_No = "" THEN NullText
                                           ELSE row.Batch_No,
                                           StockOrZero(row), args[p].caller))
  /\ UNCHANGED <<nreq, trace>>

\* the statements of the first importDrugs
InsertDrugsSteps(p) ==
  \/ InsertDrugsType(p)
  \/ InsertDrugsTypeInsert(p)
  \/ InsertDrugsName(p)
  \/ InsertDrugsNameInsert(p)
  \/ InsertDrugsRow(p)

\* ------------------------------------------------------- importDrugTypes
\* the first non-blank cell of every line of an uploaded CSV of drug types
TypeCells == {"", "Drug Types", "tablet", "syrup "}
TypeFiles == UNION {[1..n -> TypeCells] : n \in 0..MaxRows}
\* on('data'): the lines that hold a cell which is not blank
TypeResults(file) == SelectSeq(file, LAMBDA cell : ~Blank(cell))
\* /^drug.?types?/i.test(type)
IsHeader(type) == type \in {"Drug Types"}
\* drugTypes after the row results[i] and the rows behind it: a Set in the
\* order of insertion, the header skipped in the first row only
RECURSIVE DrugTypesFrom(_, _, _)
DrugTypesFrom(results, i, drugTypes) ==
  IF i > Len(results) THEN drugTypes
  ELSE LET type == Trim(results[i])
       IN IF type = "" \/ (i = 1 /\ IsHeader(type))
               \/ \E j \in 1..Len(drugTypes) : drugTypes[j] = type
            THEN DrugTypesFrom(results, i + 1, drugTypes)
          ELSE DrugTypesFrom(results, i + 1, Append(drugTypes, type))
\* the unique index on type_name makes the statement wait for a transaction
\* that has written the same name
TypeBusy(p, type) == \E q \in Procs \ {p} : type \in tx[q].types
\* errors.push({drugType: type, error: err.message})
TypeError(l, type) ==
  [l EXCEPT !.errors = Append(@, [drugType |-> type, reason |-> "Database error"])]

\* importDrugTypes up to its BEGIN: the checks, the parse of the file, whose
\* stream nothing listens to (no answer when the file cannot be read), and
\* the set of the types
importDrugTypes(p) ==
  /\ Free(p)
  /\ \E file \in {"none", "uploaded"}, cells \in TypeFiles, stream \in StreamOutcomes :
       LET a == [NoArgs EXCEPT !.op = "importDrugTypes"]
           drugTypes == DrugTypesFrom(TypeResults(cells), 1, <<>>)
       IN IF file = "none" THEN Finish(p, Reply(a.op, 400, "No file uploaded"))
          ELSE IF stream = "unreadable" THEN Stops(p, a)
          ELSE IF stream = "parser_error" THEN At(p, "catch", a, NoLoc)
          ELSE IF drugTypes = <<>>
            THEN Finish(p, Reply(a.op, 400, "No valid drug types found in CSV"))
          ELSE At(p, "types_begin", a,
                  [NoLoc EXCEPT !.rows = drugTypes, !.total = Len(drugTypes), !.k = 1])
  /\ Autocommit(db)
  /\ Take(p)

\* await db.query('BEGIN')
ImportDrugTypesBegin(p) ==
  /\ pc[p] = "types_begin"
  /\ \E fault \in BOOLEAN :
       IF fault THEN Raised(p, "BEGIN") /\ Writes(p, tx[p])
       ELSE Done(p, "BEGIN", "types_insert", loc[p]) /\ Writes(p, Begin(tx[p]))
  /\ UNCHANGED <<nreq, trace>>

\* await db.query(INSERT INTO drug_types (type_name) VALUES ($1) ON CONFLICT
\* (type_name) DO UPDATE SET type_name = EXCLUDED.type_name RETURNING *) and
\* successCount++, or the error of the type put down in errors; COMMIT
\* follows the last type
ImportDrugTypesInsert(p) ==
  /\ pc[p] = "types_insert"
  /\ LET l == loc[p]
         type == l.rows[l.k]
         next == IF l.k = Len(l.rows) THEN "types_commit" ELSE "types_insert"
     IN \E fault \in BOOLEAN :
          IF fault \/ Aborted(tx[p])
            THEN /\ At(p, next, args[p],
                       Noted([TypeError(l, type) EXCEPT !.k = l.k + 1],
                             "INSERT drug_types", FALSE))
                 /\ Writes(p, Abort(tx[p]))
          ELSE /\ ~TypeBusy(p, type)
               /\ Done(p, "INSERT drug_types", next,
                       [l EXCEPT !.importedCount = @ + 1, !.k = l.k + 1])
               /\ Writes(p, [tx[p] EXCEPT !.types = @ \cup {type}])
  /\ UNCHANGED <<nreq, trace>>

\* await db.query('COMMIT') and the answer
ImportDrugTypesCommit(p) ==
  /\ pc[p] = "types_commit"
  /\ \E fault \in BOOLEAN :
       IF fault THEN Raised(p, "COMMIT") /\ Writes(p, Abort(tx[p]))
       ELSE /\ Commits(p)
            /\ Answer(p, "COMMIT",
                      [Reply(args[p].op, 200, "Import completed successfully") EXCEPT
                         !.imported = loc[p].importedCount, !.total = loc[p].total,
                         !.errors = loc[p].errors])
  /\ UNCHANGED <<nreq, trace>>

\* catch (error): await db.query('ROLLBACK') and the 500 answer, which carries
\* the errors put down so far
ImportDrugTypesCatch(p) ==
  /\ pc[p] = "catch" /\ args[p].op = "importDrugTypes"
  /\ Catch(p, [Reply(args[p].op, 500, "Failed to import drug types") EXCEPT
                 !.errors = loc[p].errors])
  /\ UNCHANGED <<nreq, trace>>

\* the statements of importDrugTypes
ImportDrugTypesSteps(p) ==
  \/ ImportDrugTypesBegin(p)
  \/ ImportDrugTypesInsert(p)
  \/ ImportDrugTypesCommit(p)
  \/ ImportDrugTypesCatch(p)

\* ------------------------------------------------ the catalogue and the ledger
\* the databases an earlier request to the catalogue has left: drug 1 renamed by
\* updateDrug, drug 1 removed by deleteDrug, a third drug put in by addDrug, the
\* types and names linked by importDrugs
CatalogueDbs ==
  LET d == CHOOSE f \in FreshDbs : f.stock[1] = 1
  IN {UpdateDrugRow(d, 1, <<"paracetamol">>, <<1>>, Absent, "pharmacy", 1)[1],
      DeleteDrugRow(d, 1, "pharmacy", 1)[1],
      InsertDrugRow(d, d.nextDrug, "amoxicillin", "B9", 2, 1),
      [d EXCEPT !.drug_types = {"tablet"},
                !.drug_names = {<<"tablet", "amoxicillin">>, <<"tablet", "cetirizine">>}]}
\* the endpoints of the dispensing ledger and the endpoints that write the
\* rows of drugs, with the statements of every request put down
InitTxn ==
  /\ db \in FreshDbs \cup EarlierDbs \cup CatalogueDbs
  /\ Idle
  /\ trace = TRUE
  /\ nreq = [p \in Procs |-> IF p = 1 THEN MaxTxn ELSE 0]
NextTxn ==
  \/ NextAll
  \/ \E p \in Procs : updateDrug(p)
  \/ \E p \in Procs : addDrug(p)
  \/ \E p \in Procs : deleteDrug(p)
  \/ \E p \in Procs : importDrugs(p)
  \/ \E p \in Procs : ImportDrugsSteps(p)
  \/ \E p \in Procs : importDrugsFirst(p)
  \/ \E p \in Procs : InsertDrugsSteps(p)
  \/ \E p \in Procs : importDrugTypes(p)
  \/ \E p \in Procs : ImportDrugTypesSteps(p)
SpecTxn == InitTxn /\ [][NextTxn]_vars

\* the dispensing requests in a race, and the request that deletes the drug
InitDispRace ==
  /\ db \in FreshDbs \cup EarlierDbs
  /\ Idle
  /\ trace = FALSE
  /\ nreq = [p \in Procs |-> MaxRace]
NextDispRace ==
  \/ \E p \in Procs : RaceRecBegin(p)
  \/ \E p \in Procs : RecSteps(p)
  \/ \E p \in Procs : RaceDelBegin(p)
  \/ \E p \in Procs : DelSteps(p)
  \/ \E p \in Procs : Refuse(p)
  \/ \E p \in Procs : RaceImportBegin(p)
  \/ \E p \in Procs : ImportSteps(p)
  \/ \E p \in Procs : deleteDrug(p)
SpecDispRace == InitDispRace /\ [][NextDispRace]_vars

\* ================================================================ claims
RECURSIVE SumQuantity(_, _)
SumQuantity(d, S) ==
  IF S = {} THEN 0
  ELSE LET i == CHOOSE x \in S : TRUE IN d.quantity[i] + SumQuantity(d, S \ {i})

\* the step that ends the request of process p: its response is last'
Responds(p) == pc'[p] = "idle" /\ (pc[p] # "idle" \/ nreq'[p] # nreq[p])
\* the step that ends a single-item update of process p that has got past its
\* SELECT; with the requests handled one after the other, db is the database
\* the request found
UpdEnds(p) == args[p].op = "updateOrderItemStatus" /\ Responds(p)
\* the step that ends an approve-all call of process p
ApproveAllEnds(p) == args[p].op = "approveAllItems" /\ Responds(p)
\* the order items whose status the step changes to approved
NewlyApproved == {i \in Items : db.status[i] # "approved" /\ db'.status[i] = "approved"}
Range(q) == {q[k] : k \in 1..Len(q)}
\* the answers of a request in which a statement raised
ErrorCodes == {500, NoResponse}

\* C1: in every reachable state every drug's stock is at least 0.
C1_StockNeverNegative == \A d \in Drugs : db.stock[d] >= 0

\* what C2 asks of the step that ends the update of process p: approved, the
\* quantity in force stored and the stock decremented by it when the stock
\* covers it, else the insufficient-stock answer and nothing changed
ChecksStock(p) ==
  LET i == args[p].id
      d == ItemDrug(i)
      eff == IF args[p].quantity # Absent THEN args[p].quantity[1] ELSE db.quantity[i]
  IN IF db.stock[d] >= eff
       THEN /\ last'.code = 200
            /\ db'.status[i] = "approved"
            /\ db'.quantity[i] = eff
            /\ db'.stock = [db.stock EXCEPT ![d] = @ - eff]
       ELSE /\ last'.code = 400
            /\ db' = db
\* the step ends a single-item update to approved on an item with a drug; C2
\* is read for requests that send no quantity or one of at least 1 and in
\* which no statement raises
ApprovalEnds(p) ==
  /\ UpdEnds(p) /\ args[p].status = "approved"
  /\ ItemDrug(args[p].id) # NoDrug /\ last'.code \notin ErrorCodes
  /\ (args[p].quantity = Absent \/ args[p].quantity[1] >= 1)

\* C2: a single-item update to approved on an item with a drug approves and
\* decrements stock by effectiveQuantity (the quantity sent, else the stored
\* one) when stock >= effectiveQuantity, and otherwise fails with insufficient
\* stock and changes neither the item's status, its quantity nor the stock.
C2_ApproveAsStated ==
  [][\A p \in Procs : ApprovalEnds(p) => ChecksStock(p)]_vars
\* what does hold: the same for an item that is not approved already
C2_ApproveChecksStock ==
  [][\A p \in Procs :
       ApprovalEnds(p) /\ db.status[args[p].id] # "approved" => ChecksStock(p)]_vars

\* what does hold: an approval of exactly the available stock succeeded and
\* left 0
C2_Witness ==
  /\ last.op = "updateOrderItemStatus" /\ last.code = 200
  /\ \E i \in Items : /\ hist[i].valid /\ db.status[i] = "approved"
                      /\ hist[i].before = db.quantity[i]
                      /\ db.stock[ItemDrug(i)] = 0 /\ hist[i].before > 0

\* C3: when an approved item is rejected and nothing else wrote the drug's
\* stock since the approval, the stock after the rejection is the stock just
\* before the approval (read for approvals that deducted at least 1).
C3_RejectRestoresPreApprovalStock ==
  [][\A i \in Items :
       (/\ hist[i].valid /\ db.status[i] = "approved" /\ db'.status[i] = "rejected"
        /\ hist[i].before > db.stock[ItemDrug(i)]) =>
         db'.stock[ItemDrug(i)] = hist[i].before]_vars

\* C4: an item's status changes only along pending->approved, approved->shipped,
\* pending->rejected, approved->rejected, and a request to approve a rejected
\* item changes neither the item nor the stock.
StatusEdges ==
  {<<"pending", "approved">>, <<"approved", "shipped">>,
   <<"pending", "rejected">>, <<"approved", "rejected">>}
C4_StatusMachine ==
  [][/\ \A i \in Items :
          db'.status[i] # db.status[i] => <<db.status[i], db'.status[i]>> \in StatusEdges
     /\ \A p \in Procs :
          (UpdEnds(p) /\ args[p].status = "approved"
             /\ db.status[args[p].id] = "rejected") => db' = db]_vars

\* C5: a single-item update is all-or-nothing: answered 200, the quantity
\* sent, the status sent and the stock change that goes with the status change
\* are all persisted; answered otherwise (insufficient stock, a statement that
\* raised), nothing is; no item becomes approved without its decrement; and no
\* other step of the call changes the database.
C5_UpdateAllOrNothing ==
  [][\A p \in Procs :
       /\ UpdEnds(p) =>
            LET a == args[p]
                i == a.id
                d == ItemDrug(i)
            IN IF last'.code = 200
                 THEN /\ Truthy(a.quantity) => db'.quantity[i] = a.quantity[1]
                      /\ a.status # NoStatus => db'.status[i] = a.status
                      /\ (d # NoDrug /\ i \in NewlyApproved) =>
                           db'.stock[d] = db.stock[d] - db'.quantity[i]
                      /\ (d # NoDrug /\ db.status[i] = "approved"
                            /\ db'.status[i] = "rejected") =>
                           db'.stock[d] = db.stock[d] + db.quantity[i]
                 ELSE db' = db
       /\ (args[p].op = "updateOrderItemStatus" /\ pc'[p] # "idle") => db' = db]_vars

\* C5 case: a call that had written quantity and status was refused for
\* insufficient stock
C5_Witness ==
  /\ last.op = "updateOrderItemStatus" /\ last.code = 400
  /\ \E i \in Items : db.status[i] = "pending" /\ db.quantity[i] = InitQuantity(i)

\* C6: every order item's stored quantity is at least 1.
C6_QuantityAtLeastOne == \A i \in Items : db.quantity[i] >= 1

\* the pending items of the order that the caller of process p's approve-all
\* is seller of or recipient of
VisiblePending(p) ==
  {i \in Items : /\ ItemOrder(i) = args[p].id
                 /\ db.status[i] = "pending"
                 /\ (ItemSeller(i) = args[p].caller
                       \/ args[p].caller = OrderRecipient(args[p].id))}
\* the stock available to item i; an item without a drug has none
Available(i) == IF ItemDrug(i) = NoDrug THEN 0 ELSE db.stock[ItemDrug(i)]
InsufficientEntry(i) ==
  [drug_name |-> IF ItemDrug(i) = NoDrug THEN "" ELSE DrugName(db, ItemDrug(i)),
   requested |-> db.quantity[i],
   available |-> Available(i), reason |-> "Insufficient stock"]
\* what approve-all does for the items of S: approved and decremented exactly
\* when stock >= quantity, else left pending with one entry; all else unchanged
ApproveAllOutcome(S) ==
  /\ \A i \in S :
       IF Available(i) >= db.quantity[i]
         THEN db'.status[i] = "approved"
         ELSE /\ db'.status[i] = "pending"
              /\ Cardinality({k \in 1..Len(last'.reported) : last'.reported[k] = i}) = 1
              /\ \A k \in 1..Len(last'.reported) :
                   last'.reported[k] = i => last'.insufficientStockItems[k] = InsufficientEntry(i)
  /\ \A i \in Items \ S : db'.status[i] = db.status[i]
  /\ db'.quantity = db.quantity
  /\ \A d \in Drugs :
       db'.stock[d] = db.stock[d] - SumQuantity(db, {i \in NewlyApproved : ItemDrug(i) = d})
  /\ Len(last'.insufficientStockItems) = Cardinality(S \ NewlyApproved)
\* the call found items to approve
FoundItems(r) == r.totalItems # Absent

\* C7: in an approve-all call every visible pending item is approved and its
\* drug's stock decremented by its quantity exactly when the drug's stock is
\* >= the quantity, and is else left pending, the stock unchanged, with one
\* "Insufficient stock" entry; other items are unchanged. The available stock
\* is read as the stock the call found, which is what the code compares.
C7_ApproveAllAsStated ==
  [][\A p \in Procs :
       (ApproveAllEnds(p) /\ last'.code = 200) => ApproveAllOutcome(VisiblePending(p))]_vars
\* what does hold: a call that reports no database error does so for the
\* visible pending items that have a drug
C7_ApproveAllPerItem ==
  [][\A p \in Procs :
       (/\ ApproveAllEnds(p) /\ last'.code = 200
        /\ \A k \in 1..Len(last'.insufficientStockItems) :
             last'.insufficientStockItems[k].reason = "Insufficient stock") =>
         ApproveAllOutcome({i \in VisiblePending(p) : ItemDrug(i) # NoDrug})]_vars
\* the same for the items that have a drug only
C7_ApproveAllWithDrug ==
  [][\A p \in Procs :
       (ApproveAllEnds(p) /\ last'.code = 200) =>
         ApproveAllOutcome({i \in VisiblePending(p) : ItemDrug(i) # NoDrug})]_vars
\* what does hold: one call approved an item and reported another as
\* insufficient
C7_Witness ==
  /\ last.op = "approveAllItems" /\ last.code = 200
  /\ last.approvedCount = 1 /\ db.stock[1] = 0
  /\ Len(last.insufficientStockItems) = 1
  /\ last.insufficientStockItems[1].reason = "Insufficient stock"
\* the first call was answered 200 and left an item pending that it did not
\* list and whose drug has the stock for it: the UPDATE of another item raised
\* and COMMIT rolled the approval back
C7_SufficientLeftPending ==
  /\ last.op = "approveAllItems" /\ last.code = 200 /\ nreq[1] = MaxReq - 1
  /\ \E i \in last.counted : /\ db.status[i] = "pending"
                             /\ db.stock[ItemDrug(i)] >= db.quantity[i]
                             /\ i \notin Range(last.reported)
\* the first call selected the two items with a drug and was answered 200
\* without an entry for the pending item that has no drug
C7_NoDrugUnreported ==
  /\ last.op = "approveAllItems" /\ last.code = 200 /\ nreq[1] = MaxReq - 1
  /\ last.totalItems = <<2>> /\ last.approvedCount = 2
  /\ \E i \in Items : ItemDrug(i) = NoDrug /\ db.status[i] = "pending"

\* what C8 asks of the step that ends the approve-all of process p, the stock
\* being decremented for the items of S
CountsAddUp(p, S) ==
  LET r == last'
      sel == {loc[p].rows[k].id : k \in 1..Len(loc[p].rows)}
  IN /\ r.approvedCount + Len(r.insufficientStockItems) = Len(loc[p].rows)
     /\ FoundItems(r) => r.totalItems = <<Len(loc[p].rows)>>
     /\ Cardinality(sel) = Len(loc[p].rows)
     /\ r.approvedCount = Cardinality(r.counted)
     /\ Len(r.reported) = Len(r.insufficientStockItems)
     /\ Cardinality(Range(r.reported)) = Len(r.reported)
     /\ r.counted \cap Range(r.reported) = {}
     /\ r.counted \cup Range(r.reported) = sel
     /\ NewlyApproved \subseteq r.counted
     /\ \A d \in Drugs :
          db.stock[d] - db'.stock[d] = SumQuantity(db, {i \in S : ItemDrug(i) = d})

\* C8: in every approve-all call approvedCount + length(insufficientStockItems)
\* is the number of items selected, which is totalItems, every selected item
\* is counted or listed and never both, and a drug's stock is decremented once
\* for each item counted in approvedCount and for no other item.
C8_ApproveAllCounts ==
  [][\A p \in Procs :
       (ApproveAllEnds(p) /\ last'.code = 200) => CountsAddUp(p, last'.counted)]_vars
\* what does hold: the counts add up in every call, the items the call
\* approves are among the counted ones, and the stock is decremented once for
\* each item the call approves
C8_CountsOfApproved ==
  [][\A p \in Procs :
       (ApproveAllEnds(p) /\ last'.code = 200) => CountsAddUp(p, NewlyApproved)]_vars
\* what does hold: a call that counted two items and listed none
C8_Witness ==
  /\ last.op = "approveAllItems" /\ last.code = 200
  /\ last.approvedCount = 2 /\ last.totalItems = <<2>>
  /\ db.status[1] = "approved" /\ db.status[2] = "approved"
\* the first call counted an item in approvedCount whose drug still has all
\* its stock
C8_CountedNotDecremented ==
  /\ last.op = "approveAllItems" /\ last.code = 200 /\ nreq[1] = MaxReq - 1
  /\ last.approvedCount >= 1
  /\ \E i \in last.counted : db.quantity[i] >= 1 /\ db.stock[ItemDrug(i)] = MaxStock
\* a call that found no pending item answers without totalItems
C8_EmptyCall ==
  /\ last.op = "approveAllItems" /\ last.code = 200 /\ ~FoundItems(last)
  /\ last.approvedCount = 0 /\ last.insufficientStockItems = <<>>

\* process p is in a call of op
InCall(p, op) == args[p].op = op /\ pc[p] # "idle"
\* process p takes a step of a call of op
StepOf(p, op) == InCall(p, op) /\ pc'[p] # pc[p]
\* the step in which the COMMIT of a record-dispensing call goes through
RecCommitStep(p) == pc[p] = "rec_commit" /\ pc'[p] = "rec_updated"
\* the step that ends a record-dispensing call past its date check
RecEnds(p) == args[p].op = "recordDailyDispensing" /\ Responds(p)
\* the summary rows of the key of the call with arguments a
KeyRows(d, a) == ExistingRecord(d, a.id, CurrentDate, a.category)
\* the quantity of the key's row, 0 when there is none
OldQuantity(d, a) ==
  IF KeyRows(d, a) = {} THEN 0 ELSE (CHOOSE r \in KeyRows(d, a) : TRUE).quantity_dispensed

\* C9: with the requests handled one after the other, the COMMIT of a
\* record-dispensing call leaves exactly one summary row for (drug, today,
\* category), holding the submitted quantity, and changes the drug's stock by
\* -(newQuantity - oldQuantity), oldQuantity being the quantity of the
\* existing row or 0; nothing else changes, no other step of the call changes
\* the database, and the call answers 200 only after that COMMIT.  When a row
\* exists and the stock is lower than newQuantity - oldQuantity, the call is
\* refused, or ends in an error, without a COMMIT.
C9_RecordUpserts ==
  [][\A p \in Procs :
       LET a == args[p]
           new == a.quantity[1]
           old == OldQuantity(db, a)
       IN /\ RecCommitStep(p) =>
               /\ \E r \in db'.dds : /\ KeyRows(db', a) = {r}
                                     /\ r.quantity_dispensed = new
               /\ db.stock[a.id] >= new - old
               /\ db'.stock = [db.stock EXCEPT ![a.id] = @ - (new - old)]
               /\ db'.dds \ KeyRows(db', a) = db.dds \ KeyRows(db, a)
               /\ db'.status = db.status /\ db'.quantity = db.quantity
          /\ (StepOf(p, "recordDailyDispensing") /\ ~RecCommitStep(p)) => db' = db
          /\ (RecEnds(p) /\ last'.code = 200) =>
               pc[p] = "rec_updated" /\ \E r \in KeyRows(db, a) : r.quantity_dispensed = new
          /\ (/\ StepOf(p, "recordDailyDispensing") /\ pc[p] = "rec_existing"
              /\ KeyRows(db, a) # {} /\ db.stock[a.id] < new - old) =>
               pc'[p] \in {"refuse", "catch"}
          /\ (StepOf(p, "recordDailyDispensing") /\ pc[p] = "refuse") =>
               pc'[p] = "catch" \/ (pc'[p] = "idle" /\ last'.code \in {400, 404})]_vars

\* an existing row was updated with a different quantity
C9_Witness ==
  /\ last.op = "recordDailyDispensing"
  /\ last.message = "Dispensing record updated successfully"
  /\ last.diff # <<0>>
  /\ \E r \in db.dds : r.quantity_dispensed >= 1

\* C10: there is never more than one summary row per (drug, date, category),
\* whatever record, delete and CSV-import calls run and however they
\* interleave; the INSERT of a record call that found no row and whose key has
\* meanwhile been inserted by another call raises the unique violation, and
\* the call ends with ROLLBACK and the duplicate-record answer (409) without a
\* second attempt, changing neither stock nor rows.
C10_OneRowPerKey ==
  /\ [](\A r1, r2 \in db.dds :
          (/\ r1.drug_id = r2.drug_id
           /\ r1.dispensing_date = r2.dispensing_date
           /\ r1.category = r2.category) => r1 = r2)
  /\ [][\A p \in Procs :
          /\ (/\ StepOf(p, "recordDailyDispensing") /\ pc[p] = "rec_summary"
              /\ loc[p].existing = <<>> /\ KeyRows(db, args[p]) # {}) =>
               pc'[p] = "catch" /\ db' = db
          /\ (RecEnds(p) /\ loc[p].err = "23505") =>
               /\ pc[p] = "catch"
               /\ last'.code \in {409, NoResponse}
               /\ db' = db]_vars

\* a record call was answered with the duplicate-record error after another
\* call had inserted the row of its key
C10_Witness ==
  /\ last.op = "recordDailyDispensing"
  /\ last.code = 409
  /\ \E r \in db.dds : TRUE

\* C11: a record-dispensing call that submits, for a key that has a row, the
\* quantity the row already holds changes neither the drug's stock nor the row,
\* whatever the stock is and however the call ends.
C11_ResubmitUnchanged ==
  [][\A p \in Procs :
       (/\ StepOf(p, "recordDailyDispensing")
        /\ KeyRows(db, args[p]) # {}
        /\ \A r \in KeyRows(db, args[p]) : r.quantity_dispensed = args[p].quantity[1]) =>
         db'.stock = db.stock /\ db'.dds = db.dds]_vars

\* a call that re-submitted the quantity of the existing row has succeeded
C11_Witness ==
  /\ last.op = "recordDailyDispensing"
  /\ last.code = 200
  /\ last.diff = <<0>>
  /\ \E r \in db.dds : r.quantity_dispensed >= 1

\* the step that ends a delete call
DelEnds(p) == args[p].op = "deleteDispensingRecord" /\ Responds(p)
RECURSIVE SumDispensed(_)
SumDispensed(S) ==
  IF S = {} THEN 0
  ELSE LET r == CHOOSE x \in S : TRUE IN r.quantity_dispensed + SumDispensed(S \ {r})
\* the stock of drug x plus what its dispensing rows hold
StockAndDispensed(d, x) == d.stock[x] + SumDispensed({r \in d.dds : r.drug_id = x})

\* C12: with record, import and delete calls handled one after the other, a
\* drug's stock plus the quantities of its dispensing rows never changes, so
\* that creating a row, updating it any number of times and deleting it brings
\* the stock back to its value before the row was created when nothing else
\* touched the drug; a delete that succeeds adds the row's current quantity to
\* the stock and removes the row in the same COMMIT, and a delete that fails
\* changes nothing.
C12_DeleteRoundTrip ==
  [][/\ \A x \in Drugs : StockAndDispensed(db', x) = StockAndDispensed(db, x)
     /\ \A p \in Procs :
          /\ DelEnds(p) =>
               LET id == args[p].id
                   rows == {r \in db.dds : r.id = id}
               IN IF last'.code = 200
                    THEN /\ db'.dds = db.dds \ rows
                         /\ \A x \in Drugs :
                              db'.stock[x] = db.stock[x]
                                             + SumDispensed({r \in rows : r.drug_id = x})
                    ELSE db' = db
          /\ (StepOf(p, "deleteDispensingRecord") /\ ~DelEnds(p)) => db' = db]_vars

\* a row was created and then deleted within the calls, no row is left
C12_Witness ==
  /\ last.op = "deleteDispensingRecord"
  /\ last.code = 200
  /\ db.dds = {}
  /\ db.nextId = 2
  /\ nreq[1] = 0
  /\ \E x \in Drugs : db.stock[x] = MaxStock

\* C13: a record-dispensing call by the drug's owner whose quantity exceeds
\* the stock its SELECT reads is refused there: it sends ROLLBACK and answers
\* 400 insufficient stock (500 when that ROLLBACK raises), and no step of it
\* changes a stock or a summary row.
C13_InsufficientStockRejected ==
  [][\A p \in Procs :
       LET a == args[p]
       IN /\ (/\ StepOf(p, "recordDailyDispensing") /\ pc[p] = "rec_drug"
              /\ pc'[p] # "catch"
              /\ DrugOwner(db, a.id) = a.caller
              /\ a.quantity[1] > db.stock[a.id]) =>
               /\ pc'[p] = "refuse"
               /\ loc'[p].refused = [code |-> 400, message |-> "Insufficient stock"]
          /\ (StepOf(p, "recordDailyDispensing") /\ pc[p] = "refuse") =>
               /\ db' = db
               /\ \/ pc'[p] = "catch"
                  \/ /\ pc'[p] = "idle"
                     /\ last'.code = loc[p].refused.code
                     /\ last'.message = loc[p].refused.message
          /\ (RecEnds(p) /\ pc[p] = "catch") => db' = db /\ last'.code \in {409, 500, NoResponse}]_vars

\* a record call was refused for insufficient stock while the drug has stock
C13_Witness ==
  /\ last.op = "recordDailyDispensing"
  /\ last.code = 400
  /\ last.message = "Insufficient stock"
  /\ \E x \in Drugs : db.stock[x] >= 1

DateMessages ==
  {"Entries can only be made for the current date",
   "Entries can only be imported for the current date"}
\* the request carries a date other than the server's current date
OtherDay(date) == date # Absent /\ date[1] # "" /\ date[1] # CurrentDate

\* C14: a record-dispensing call and a CSV import that carry a date other than
\* the server's current date do not get past the date check: they are
\* answered 400 with the date message before any statement is sent to the
\* database, the step changes no stock and no row, and every row carries the
\* current date.
C14_OnlyToday ==
  /\ [](\A p \in Procs :
          pc[p] # "idle" /\ args[p].op \in {"recordDailyDispensing", "importDispensingRecords"}
            => ~OtherDay(args[p].date))
  /\ [](\A r \in db.dds : r.dispensing_date = CurrentDate)
  /\ [][\A p \in Procs :
          (Responds(p) /\ last'.message \in DateMessages) =>
            /\ pc[p] = "idle" /\ last'.code = 400
            /\ db' = db /\ tx' = tx]_vars

\* an import was refused for its date and no row was written
C14_Witness ==
  /\ last.op = "importDispensingRecords"
  /\ last.code = 400
  /\ last.message \in DateMessages
  /\ db.dds = {}

\* C15: a record-dispensing call for a drug the caller did not create, a delete
\* of a dispensing row whose drug the caller did not create and a single-item
\* update of an order item the caller does not sell are refused with 404 when
\* no statement raises (the record and the delete call after their SELECT and
\* ROLLBACK, the update at its SELECT, so that no update call gets past it),
\* and a request answered 404 has changed no stock, no order item and no
\* dispensing row.
C15_ForeignStateNotFound ==
  [][\A p \in Procs :
       LET a == args[p]
       IN /\ (/\ StepOf(p, "recordDailyDispensing") /\ pc[p] = "rec_drug"
              /\ pc'[p] # "catch" /\ DrugOwner(db, a.id) # a.caller) =>
               /\ pc'[p] = "refuse"
               /\ loc'[p].refused = [code |-> 404, message |-> "Drug not found in your inventory"]
          /\ (/\ StepOf(p, "deleteDispensingRecord") /\ pc[p] = "del_select"
              /\ pc'[p] # "catch"
              /\ \A r \in db.dds : r.id = a.id => DrugOwner(db, r.drug_id) # a.caller) =>
               /\ pc'[p] = "refuse"
               /\ loc'[p].refused = [code |-> 404,
                                     message |-> "Record not found or not authorized"]
          /\ (pc[p] = "refuse" /\ pc'[p] = "idle") => last'.code = loc[p].refused.code
          /\ (pc'[p] # "idle" /\ pc'[p] # "catch" /\ args'[p].op = "updateOrderItemStatus") =>
               ItemSeller(args'[p].id) = args'[p].caller
          /\ (pc[p] \in {"rec_drug", "del_select", "refuse"}
                \/ (Responds(p) /\ last'.code = 404)) => db' = db]_vars

\* a single-item update by a user who does not sell the item was answered 404
\* while a dispensing row of some drug exists
C15_Witness ==
  /\ last.op = "updateOrderItemStatus"
  /\ last.code = 404
  /\ db.dds # {}

\* the step that ends an import past its checks
ImportEnds(p) == args[p].op = "importDispensingRecords" /\ Responds(p)
\* what a single record call does in transaction t for drug x with quantity
\* q: upsert of the row of the key and the stock moved by the difference
ApplyRecord(d, t, x, q, category) ==
  LET existing == ExistingRecord(View(d, t), x, CurrentDate, category)
      e == CHOOSE r \in existing : TRUE
  IN IF existing = {}
       THEN DeductStock(d, InsertSummary(t, NextIdAfter(d, t), x, q, CurrentDate, category),
                        x, q)
       ELSE DeductStock(d, UpdateSummary(d, t, e.id, q), x, q - e.quantity_dispensed)
\* the transaction after the rows of results outside failed were applied one by one
RECURSIVE RowByRow(_, _, _, _, _, _, _)
RowByRow(d, t, results, k, category, u, failed) ==
  IF k > Len(results) THEN t
  ELSE IF k \in failed THEN RowByRow(d, t, results, k + 1, category, u, failed)
  ELSE LET x == CHOOSE y \in DrugResult(d, Trim(results[k].drug_name), u) : TRUE
           q == ParseIntText(results[k].quantity_dispensed)[1]
       IN RowByRow(d, ApplyRecord(d, t, x, q, category), results, k + 1, category, u, failed)
\* the dispensing rows without their ids
Rows(d) == {[r EXCEPT !.id = 0] : r \in d.dds}
\* the import of process p ends as the row-by-row outcome
ImportIsRowByRow(p) ==
  LET r == last'
      failed == {r.errors[k].row : k \in 1..Len(r.errors)}
      out == Commit(db, RowByRow(db, Begin(NoTx), loc[p].rows, 1, args[p].category,
                                 args[p].caller, failed))
  IN /\ r.imported + Len(r.errors) = r.total
     /\ db'.stock = out.stock
     /\ Rows(db') = Rows(out)
\* a statement of a row raised
RowRaised(r) == \E k \in 1..Len(r.errors) : r.errors[k].reason = "Database error"

\* C16: an import that is answered has imported every row that is not in its
\* error list as a single record call would, has left no trace of the rows in
\* the error list, has committed, and reports imported + length(errors) =
\* total.
C16_ImportRowByRow ==
  [][\A p \in Procs : (ImportEnds(p) /\ last'.code = 200) => ImportIsRowByRow(p)]_vars

\* what does hold: the same of an import in which no statement of a row raised
C16_ImportRowByRowNoFailure ==
  [][\A p \in Procs :
       (ImportEnds(p) /\ last'.code = 200 /\ ~RowRaised(last')) => ImportIsRowByRow(p)]_vars
\* an import reports a row as imported and another as failed, and has
\* written nothing
C16_ImportedNotPersisted ==
  /\ last.op = "importDispensingRecords" /\ last.code = 200
  /\ last.imported >= 1 /\ RowRaised(last)
  /\ db.dds = {}
\* ------------------------------------------------------------------ chatbot
\* the keyword occurs in the text as a whole word, in any case
BareKeyword(sql, keyword) ==
  \E i \in 1..Len(sql) :
    /\ HasAt(ToUpperCase(sql), i, keyword)
    /\ Boundary(sql, i)
    /\ Boundary(sql, i + Len(keyword))
\* the text is one statement, and that statement is a SELECT
ExactlyOneSelect(sql) ==
  /\ Len(Statements(sql)) = 1
  /\ Verb(Statements(sql)[1]) = ToLowerCase(SelectWord)

\* C17: the dynamic SQL validation lets a generated statement through only if it is exactly
\* one SELECT statement and none of INSERT, UPDATE, DELETE, DROP, ALTER,
\* CREATE, TRUNCATE occurs in it as a whole word in any case; DROP TABLE drugs
\* is rejected and never reaches the database
C17_OnlyOneSelectPasses ==
  \A p \in Procs :
    /\ loc[p].sql # Absent =>
         /\ ExactlyOneSelect(loc[p].sql[1])
         /\ \A keyword \in forbiddenKeywords : ~BareKeyword(loc[p].sql[1], keyword)
    /\ (loc[p].answer.ok /\ loc[p].answer.response = SqlDropTable) =>
         /\ loc[p].sql = Absent
         /\ \A i \in 1..Len(loc[p].sent) : loc[p].sent[i].kind # "generated"
\* what the validation does ensure: a text that passes begins with SELECT and
\* holds none of the seven words, not even inside a longer word, and DROP
\* TABLE drugs does not pass
C17_SelectPrefixPasses ==
  \A p \in Procs :
    /\ loc[p].sql # Absent =>
         /\ StartsWith(ToUpperCase(loc[p].sql[1]), SelectWord)
         /\ \A keyword \in forbiddenKeywords : ~BareKeyword(loc[p].sql[1], keyword)
    /\ (loc[p].answer.ok /\ loc[p].answer.response = SqlDropTable) =>
         /\ loc[p].sql = Absent
         /\ pc[p] \in {"chat_predefined", "chat_reply"}
         /\ \A i \in 1..Len(loc[p].sent) : loc[p].sent[i].kind = "predefined"
\* a text of two statements has passed the validation
C17_TwoStatementsPassed ==
  \E p \in Procs : loc[p].sql = <<SqlTwoSelects>> /\ pc[p] = "chat_query"

\* the statement as PostgreSQL reads its identifiers: string constants and
\* dollar-quoted bodies are no identifiers, a double-quoted name is one
IdentifierText(sql) ==
  ToLowerCase(SelectSeq(RemoveQuotedFrom(RemoveQuotedFrom(sql, 1, <<"'">>), 1, DollarQuote),
                        LAMBDA c : c # "\""))
\* the names the alias map knows: the aliases and tables of FROM and JOIN
KnownNames(sql) == {aliasMap(lowerSql(sql))[i][1] : i \in 1..Len(aliasMap(lowerSql(sql)))}
Resolved(sql, x) ==
  IF x \in KnownNames(sql) THEN OwnValue(aliasMap(lowerSql(sql)), x) ELSE x
\* the qualified references x.col that resolve to no table.column of the
\* allow-list
UnknownQualified(sql) ==
  LET q == QualifiedMatches(IdentifierText(sql), 1)
  IN {q[i].first \o <<".">> \o q[i].second : i \in 1..Len(q)}
     \ {q[i].first \o <<".">> \o q[i].second :
          i \in {j \in 1..Len(q) :
                   Resolved(sql, q[j].first) \o <<".">> \o q[j].second \in validColumns}}
\* the bare identifiers that are no keyword, no known alias or table name
\* and no column part of the allow-list (a word that begins with a letter or
\* underscore is never a number)
UnknownBare(sql) ==
  LET t == IdentifierText(sql)
      b == TokenMatches(t, 1)
      bare == {i \in 1..Len(b) : /\ ~HasAt(t, b[i].second - 1, <<".">>)
                                 /\ ~HasAt(t, b[i].end + 1, <<".">>)}
  IN {b[i].first : i \in bare} \ (sqlKeywords \cup KnownNames(sql)
                                   \cup {c \in {b[i].first : i \in bare} : ColumnSuffix(c)})
\* the statements of the answers with their unknown identifiers
UnknownIdentifiers ==
  [sql \in {SqlOf(t) : t \in GeneratedTexts} |-> UnknownQualified(sql) \cup UnknownBare(sql)]
ValidatorCalled(p) == loc[p].answer.ok /\ loc[p].invalid # Absent

\* C18: validateSQLColumns reports a statement as invalid whenever it holds
\* an unknown identifier, qualified or bare; SELECT d.stock, d.name FROM
\* drugs d WHERE d.id = 1 LIMIT 20 yields no invalid token and SELECT
\* o.order_id FROM orders o LIMIT 20 yields o.order_id
C18_UnknownIdentifierReported ==
  \A p \in Procs :
    ValidatorCalled(p) =>
      /\ UnknownIdentifiers[SqlOf(loc[p].answer.response)] # {} => loc[p].invalid[1] # <<>>
      /\ loc[p].answer.response = SqlStockName => loc[p].invalid[1] = <<>>
      /\ loc[p].answer.response = SqlOrderId
           => loc[p].invalid[1] = <<SubSeq(SqlOrderId, 8, 17)>>
\* what the validator does ensure: an unknown identifier is reported unless
\* it is written in double quotes or is a property name every JavaScript
\* object inherits; the two examples come out as stated
C18_PlainIdentifierReported ==
  \A p \in Procs :
    ValidatorCalled(p) =>
      /\ /\ UnknownIdentifiers[SqlOf(loc[p].answer.response)] \ PrototypeKeys # {}
         /\ ~Includes(loc[p].answer.response, <<"\"">>)
         => loc[p].invalid[1] # <<>>
      /\ loc[p].answer.response = SqlStockName => loc[p].invalid[1] = <<>>
      /\ loc[p].answer.response = SqlOrderId
           => loc[p].invalid[1] = <<SubSeq(SqlOrderId, 8, 17)>>
\* an unknown column was reported
C18_UnknownReported ==
  \E p \in Procs : /\ ValidatorCalled(p)
                   /\ loc[p].answer.response = SqlUnknownColumn
                   /\ loc[p].invalid[1] = <<SubSeq(SqlUnknownColumn, 8, 13)>>
\* an identifier that is no column passed the validator
C18_UnknownPassed ==
  \E p \in Procs : /\ loc[p].answer.response = SqlConstructor
                   /\ loc[p].invalid = <<(<<>>)>>
                   /\ loc[p].sql = <<SqlConstructor>>

\* the statements that pass every validation step
Passing ==
  {sql \in {SqlOf(t) : t \in GeneratedTexts} :
     ~Unsafe(sql) /\ ~NotSelect(sql) /\ validateSQLColumns(sql) = <<>>}
\* generation and validation succeeded on the answer
Validated(answer) == answer.ok /\ SqlOf(answer.response) \in Passing
\* every generated text among those sent is the validated text of the answer
OnlyValidatedSent(answer, sent) ==
  \A i \in 1..Len(sent) :
    sent[i].kind = "generated" => Validated(answer) /\ sent[i].text = SqlOf(answer.response)
\* getRelevantData of the role was called and nothing else was sent: the data
\* is what the predefined queries of the role returned, or the error object
\* when the database refused the call; a role without predefined queries gets
\* the object that says so
OnlyPredefined(role, sent, data) ==
  /\ sent = <<Sent("predefined", role, <<>>)>>
  /\ data \in IF role \in Roles THEN {"predefined", "error"} ELSE {"unsupported", "error"}

\* C19: in a chatbot request generated SQL is sent to the database only after
\* it passed every validation step, and the text executed is exactly the text
\* that was validated; when generation or validation fails no generated SQL
\* is executed and the data comes from the predefined queries of the
\* caller's role
C19_ValidatedTextExecuted ==
  /\ \A p \in Procs :
       /\ OnlyValidatedSent(loc[p].answer, loc[p].sent)
       /\ pc[p] = "chat_reply" /\ ~Validated(loc[p].answer)
            => OnlyPredefined(args[p].role, loc[p].sent, loc[p].data)
  /\ last.op = "handleChatbotQuery" /\ last.code = 200 =>
       /\ OnlyValidatedSent(last.answer, last.sent)
       /\ ~Validated(last.answer) => OnlyPredefined(last.role, last.sent, last.data)
\* a request was answered from the rows of its validated statement
C19_Witness ==
  /\ last.op = "handleChatbotQuery" /\ last.code = 200
  /\ last.answer.response = SqlFenced
  /\ last.sent = <<Sent("generated", last.role, SqlOf(SqlFenced))>>
  /\ last.data = "generated"
\* a request whose statement failed the validation was answered from the
\* predefined queries
C19_FallbackWitness ==
  /\ last.op = "handleChatbotQuery" /\ last.code = 200
  /\ last.answer.response = SqlOrderId
  /\ last.sent = <<Sent("predefined", "pharmacy", <<>>)>>
  /\ last.data = "predefined"

\* a request of a role without predefined queries was answered from the
\* object that says so
C19_UnsupportedRole ==
  /\ last.op = "handleChatbotQuery" /\ last.code = 200 /\ last.role \notin Roles
  /\ last.sent = <<Sent("predefined", last.role, <<>>)>>
  /\ last.data = "unsupported" /\ last.fetched = NoData
\* one predefined statement of the fallback raised: its section is empty and
\* the other section holds its rows
C19_SectionEmptied ==
  /\ last.op = "handleChatbotQuery" /\ last.code = 200 /\ ~Validated(last.answer)
  /\ last.role = "pharmacy" /\ last.data = "predefined"
  /\ last.fetched.orders = <<(<<>>)>>
  /\ last.fetched.order_items # Absent /\ last.fetched.order_items # <<(<<>>)>>

\* a step of a chatbot request
ChatStep ==
  \E p \in Procs : ChatBegin(p) \/ ChatGenerate(p) \/ ChatQuery(p) \/ ChatPredefined(p)
                   \/ ChatReply(p)

\* C20: a chatbot request is read-only: whatever the question and whatever
\* the outcome of SQL generation, validation and text generation, its steps
\* leave every drug's stock, every order item's status and quantity and
\* every dispensing row unchanged
C20_ChatReadOnly ==
  [][ChatStep => /\ db'.stock = db.stock
                 /\ db'.status = db.status
                 /\ db'.quantity = db.quantity
                 /\ db'.dds = db.dds]_vars
\* what does hold: a request whose validated text is a single statement
\* changes nothing
C20_SingleStatementReadOnly ==
  [][\A p \in Procs : ChatQuery(p) /\ ~ArrayResult(loc[p].sql[1]) => db' = db]_vars
\* a validated text has written the stock
C20_StockWritten ==
  /\ last.op = "handleChatbotQuery" /\ last.code = 200
  /\ last.sent[1] = Sent("generated", last.role, SqlDoBlock)
  /\ \A d \in Drugs : db.stock[d] = 0

\* the text generation service failed, timed out or answered not ok
ServiceFailed == last.op = "handleChatbotQuery" /\ last.ai \in {"not_ok", "timeout", "failed"}

\* C21: when the text generation service fails, times out or answers with a
\* status that is not ok, the request still ends with a successful response
\* whose reply the formatter produced from the fetched data; the failure
\* never yields an error response
C21_FormatterFallback ==
  ServiceFailed => last.code = 200 /\ last.reply = "formatted"
\* what does hold: the fallback answers 200 with the formatter's text whenever
\* the formatter does not raise on the fetched data, and with 500 otherwise
C21_FormatterFallbackUnlessRaised ==
  ServiceFailed =>
    IF FormatThrows(last.fetched) THEN last.code = 500
    ELSE last.code = 200 /\ last.reply = "formatted"
\* the service failed and the formatter replied from the predefined data
C21_FallbackReplied ==
  ServiceFailed /\ last.ai = "timeout" /\ last.data = "predefined" /\ last.code = 200
  /\ last.reply = "formatted" /\ last.fetched.order_items # Absent
\* the service failed and the request was answered with an error: the rows of
\* the predefined drugs query hold the price as text
C21_ErrorSurfaced ==
  /\ ServiceFailed /\ last.code = 500 /\ last.data = "predefined"
  /\ last.role = "admin" /\ last.fetched.drugs # Absent
  /\ SomeRow(Section(last.fetched.drugs), LAMBDA drug : Cell(drug, PriceWord) = "text")
\* the same on the rows of a generated statement
C21_ErrorSurfacedGenerated ==
  ServiceFailed /\ last.code = 500 /\ last.sql = <<SqlJoin>> /\ last.data = "generated"

\* ------------------------------------------------------------- the guard
\* the allow-lists as the routes are described: seller routes for institute
\* and admin, dispensing routes for pharmacy
RoleAllowed(route, role) ==
  /\ role # Absent
  /\ IF route \in {"updateOrderItemStatus", "approveAllItems"}
       THEN ToLowerCase(role) \in {InstituteRole, AdminRole}
     ELSE ToLowerCase(role) = PharmacyRole
\* process p is in its controller
InController(p) == pc[p] \notin {"idle", "authorized"}

\* C22: the controller of a guarded route runs only when the caller's role,
\* compared without regard to case, is in the route's allow-list (seller
\* routes: institute and admin; dispensing routes: pharmacy); a request
\* without user or role is answered 401 and one with a role outside the list
\* 403, and in both cases the controller is not started and nothing changes.
C22_RoleGuard ==
  [][\A p \in Procs :
       /\ pc[p] = "idle" /\ nreq'[p] # nreq[p] =>
            /\ db' = db /\ tx' = tx /\ hist' = hist /\ loc' = loc
            /\ IF pc'[p] = "authorized"
                 THEN RoleAllowed(args'[p].op, args'[p].role)
               ELSE /\ pc'[p] = "idle"
                    /\ IF last'.role = Absent THEN last'.code = 401
                       ELSE last'.code = 403 /\ ~RoleAllowed(last'.op, last'.role)
       /\ pc[p] = "idle" => ~InController(p)'
       /\ pc[p] = "authorized" => RoleAllowed(args[p].op, args[p].role)]_vars
\* a request whose role is written in another case than the allow-list's is
\* passed on to the controller
C22_Witness ==
  /\ pc[1] = "authorized" /\ args[1].op = "recordDailyDispensing"
  /\ args[1].role # PharmacyRole /\ ToLowerCase(args[1].role) = PharmacyRole
\* a request with a role outside the list is refused with 403
C22_Refused ==
  last.op = "approveAllItems" /\ last.code = 403 /\ last.role = PharmacyRole

\* ------------------------------------------------------------ concurrency
\* what the items of S take from drug d
OfDrug(S, d) == {i \in S : ItemDrug(i) = d}

\* C23: two approve-all calls running concurrently on the same order never
\* both approve the same item: a call counts only items that are still pending
\* in the committed database when it commits, so each pending item is approved
\* at most once, and the stock of its drug is decremented once for it.
C23_ApprovedOnce ==
  [][/\ \A p \in Procs : ApproveAllEnds(p) =>
          /\ \A i \in last'.counted : db.status[i] = "pending"
          /\ NewlyApproved \subseteq last'.counted
     /\ \A d \in Drugs : db'.stock[d] = db.stock[d] - SumQuantity(db, OfDrug(NewlyApproved, d))
     /\ \A i \in Items : db.status[i] = "approved" => db'.status[i] = "approved"]_vars
\* the first call holds the rows it selected and has written one of them; the
\* second, for the same order by the same caller, waits at its SELECT
C23_Witness ==
  /\ pc[1] \in {"aa_stock", "aa_commit"} /\ pc[2] = "aa_select"
  /\ args[2].id = args[1].id /\ args[2].caller = args[1].caller
  /\ \E i \in tx[1].items : tx[1].status[i] = "approved"
  /\ PendingItems(View(db, tx[2]), args[2].id, args[2].caller) \cap LockedItems(2) # {}
\* both calls have ended, the first approved and the second found nothing
\* pending
C23_SecondFoundNone ==
  /\ nreq = [p \in Procs |-> 0] /\ \A p \in Procs : pc[p] = "idle"
  /\ last.message = "No pending items found for this order"
  /\ \E i \in Items : db.status[i] = "approved"

\* process p is in the transaction of a single-item approval
ApprovingTxn(p) ==
  /\ args[p].op = "updateOrderItemStatus"
  /\ pc[p] \in {"upd_begin", "upd_quantity", "upd_status", "upd_stock"}
  /\ Approving(args[p], loc[p].item)

\* C24: two single-item approvals of different items of the same drug can both
\* read the stock and pass the stock check before either writes: the check of
\* each compares the stock its own SELECT read, whatever the stock is by then,
\* and its UPDATE subtracts from the stock of the moment, so both items become
\* approved although the stock read sufficed for one only.
C24_CheckOnStockRead ==
  [][\A p \in Procs : UpdEnds(p) /\ Approving(args[p], loc[p].item) =>
       LET item == loc[p].item
           q == NewQuantity(args[p], item)
       IN /\ last'.code = 400 => item.stock < q /\ db' = db
          /\ last'.code = 200 =>
               /\ item.stock >= q
               /\ db'.status[item.id] = "approved"
               /\ db'.stock[item.drug_id] = db.stock[item.drug_id] - q]_vars
\* both approvals have read the same stock, each passes the check on it, and
\* together they ask for more than it
C24_Witness ==
  /\ ApprovingTxn(1) /\ ApprovingTxn(2)
  /\ loc[1].item.id # loc[2].item.id
  /\ loc[1].item.drug_id = loc[2].item.drug_id
  /\ loc[1].item.stock = loc[2].item.stock
  /\ loc[1].item.stock >= NewQuantity(args[1], loc[1].item)
  /\ loc[2].item.stock >= NewQuantity(args[2], loc[2].item)
  /\ NewQuantity(args[1], loc[1].item) + NewQuantity(args[2], loc[2].item) > loc[1].item.stock
\* both have committed: the two items are approved and the stock is below zero
C24_BothApproved ==
  /\ \A p \in Procs : pc[p] = "idle" /\ nreq[p] = 0
  /\ db.status[1] = "approved" /\ db.status[2] = "approved"
  /\ last.op = "updateOrderItemStatus" /\ last.code = 200
  /\ ItemDrug(1) = ItemDrug(2) /\ db.stock[ItemDrug(1)] < 0

\* the response reports an item with a database error
DatabaseErrorReported(r) ==
  \E k \in 1..Len(r.insufficientStockItems) :
    r.insufficientStockItems[k].reason = "Database error during approval"

\* C25: when the database raises an error while approve-all approves one item,
\* the item is reported with reason "Database error during approval", the
\* other items are still processed, the transaction is committed, and the
\* approvals and stock decrements of the other items are persisted.
C25_OtherItemsPersisted ==
  [][\A p \in Procs :
       ApproveAllEnds(p) /\ last'.code = 200 /\ DatabaseErrorReported(last') =>
         /\ Len(last'.insufficientStockItems) + last'.approvedCount = Len(loc[p].rows)
         /\ \A i \in last'.counted :
              /\ db'.status[i] = "approved"
              /\ db'.stock[ItemDrug(i)] < db.stock[ItemDrug(i)]]_vars
\* what does hold: the item is reported, every item is processed and the
\* call answers 200, but the failed statement has aborted the transaction, so
\* COMMIT rolls back and nothing of the call is persisted
C25_ErrorAbortsTransaction ==
  [][\A p \in Procs :
       ApproveAllEnds(p) /\ last'.code = 200 /\ DatabaseErrorReported(last') =>
         /\ Len(last'.insufficientStockItems) + last'.approvedCount = Len(loc[p].rows)
         /\ db' = db]_vars
\* a call reported a database error for one item and counted another as
\* approved, and that other item is still pending
C25_CountedNotPersisted ==
  /\ last.op = "approveAllItems" /\ last.code = 200 /\ DatabaseErrorReported(last)
  /\ last.approvedCount = 1
  /\ \E i \in last.counted : db.status[i] = "pending"

\* ----------------------------------------------------------- transactions
\* C26: whenever a mutating request is answered with a server error (500),
\* its transaction was rolled back: none of its changes to stock, order items
\* or dispensing rows is persisted.
C26_ServerErrorRolledBack ==
  [][\A p \in Procs : Responds(p) /\ last'.code = 500 => ~loc[p].persisted /\ db' = db]_vars
\* what does hold: the 500 of a delete leaves the database as the call found it
C26_DeleteErrorRolledBack ==
  [][\A p \in Procs :
       Responds(p) /\ last'.code = 500 /\ last'.op = "deleteDispensingRecord" =>
         ~loc[p].persisted /\ db' = db]_vars
\* a record-dispensing call was answered 500 and its row is in the database
C26_CommittedThenError ==
  /\ last.op = "recordDailyDispensing" /\ last.code = 500
  /\ db.dds # {} /\ nreq[1] = MaxDisp - 1

\* a recording was committed and its handler is in the catch block: the row
\* of the drug was deleted by a deleteDrug beside it before the handler read
\* the stock back
C26_DrugGoneAfterCommit ==
  \E p \in Procs : /\ pc[p] = "catch" /\ args[p].op = "recordDailyDispensing"
                   /\ tx[p] = NoTx /\ args[p].id \notin db.drugs
                   /\ \E r \in db.dds : r.drug_id = args[p].id

\* the statements that end a transaction, and those that write drugs.stock
Ends(x) == x.s \in {"COMMIT", "ROLLBACK"}
WritesStock(x) == x.s \in {"UPDATE drugs", "INSERT drugs"}
\* statement k of t is sent in a transaction the request has opened and not
\* yet ended, and the request ends it afterwards
InTransaction(t, k) ==
  /\ \E b \in 1..(k - 1) : /\ t[b].s = "BEGIN" /\ t[b].ok
                           /\ \A j \in (b + 1)..(k - 1) : ~Ends(t[j])
  /\ \E c \in (k + 1)..Len(t) : Ends(t[c])
\* the request was refused by a validation after its BEGIN
RefusedAfterBegin(r) ==
  r.code \in {400, 404} /\ \E k \in 1..Len(r.statements) : r.statements[k].s = "BEGIN"
EndsWithRollback(t) ==
  /\ t[Len(t)].s = "ROLLBACK"
  /\ \A k \in 1..Len(t) : t[k].s # "COMMIT"

\* C27: every write to a drug's stock, by any endpoint, is sent inside an open
\* transaction of the same request, after its BEGIN and before its COMMIT or
\* ROLLBACK; and a request that fails a validation after BEGIN ends with
\* ROLLBACK, not COMMIT.
C27_StockWritesInTransaction ==
  /\ \A k \in 1..Len(last.statements) :
       WritesStock(last.statements[k]) => InTransaction(last.statements, k)
  /\ RefusedAfterBegin(last) => EndsWithRollback(last.statements)
\* the endpoints that send their statements without BEGIN
Bare == {"updateDrug", "addDrug", "importDrugsFirst"}
\* what does hold: the same for every endpoint but updateDrug, addDrug and the
\* first importDrugs
C27_LedgerWritesInTransaction ==
  last.op \notin Bare =>
    /\ \A k \in 1..Len(last.statements) :
         WritesStock(last.statements[k]) => InTransaction(last.statements, k)
    /\ RefusedAfterBegin(last) => EndsWithRollback(last.statements)
\* updateDrug has set a stock with its one statement
C27_BareStockWrite ==
  /\ last.op = "updateDrug" /\ last.code = 200
  /\ last.statements = <<Sql("UPDATE drugs", TRUE)>>
\* addDrug has put in a row with its stock, and the first importDrugs two
C27_BareInsert ==
  /\ last.op = "addDrug" /\ last.code = 201
  /\ last.statements = <<Sql("INSERT drugs", TRUE)>>
C27_BareImport ==
  /\ last.op = "importDrugsFirst" /\ last.code = 200 /\ last.added = 2
  /\ \A k \in 1..Len(last.statements) : ~Ends(last.statements[k])
\* importDrugs has set one stock and put in one row between BEGIN and COMMIT
C27_ImportInTransaction ==
  /\ last.op = "importDrugs" /\ last.code = 200
  /\ last.added = 1 /\ last.updated = 1
  /\ db.stock[1] = 2 /\ 3 \in db.drugs
\* a single-item approval has written the stock between BEGIN and COMMIT
C27_WriteInTransaction ==
  /\ last.op = "updateOrderItemStatus" /\ last.code = 200
  /\ \E k \in 1..Len(last.statements) : WritesStock(last.statements[k])

\* the request has sent BEGIN
BeginSent(t) == \E k \in 1..Len(t) : t[k].s = "BEGIN"
\* the statements of t that ended a transaction
Ended(t) == {k \in 1..Len(t) : Ends(t[k]) /\ t[k].ok}
\* a ROLLBACK sent after the request's COMMIT went through
RollbackAfterCommit(t) ==
  \E c \in 1..Len(t) : /\ t[c].s = "COMMIT" /\ t[c].ok
                       /\ \E k \in (c + 1)..Len(t) : t[k].s = "ROLLBACK"
\* the transaction of the request is ended once and the request is answered
EndedOnce(r) ==
  /\ Cardinality(Ended(r.statements)) = 1
  /\ ~RollbackAfterCommit(r.statements)
  /\ r.code # NoResponse
\* a statement raised after the COMMIT of the request, or the ROLLBACK of the
\* catch block raised
RaisedOutsideTransaction(r) ==
  \/ r.code = NoResponse
  \/ \E c \in 1..Len(r.statements) :
       /\ r.statements[c].s = "COMMIT" /\ r.statements[c].ok
       /\ c < Len(r.statements)

\* C28: every request that sends BEGIN sends exactly one COMMIT or one
\* ROLLBACK for it and sends exactly one response, on every path (success,
\* validation failure, database error, error after commit); no request sends
\* ROLLBACK after its own COMMIT, and none is left with an open transaction.
C28_EndedOnceAndAnswered ==
  BeginSent(last.statements) => EndedOnce(last)
\* what does hold: the same, unless a statement raised after the COMMIT or the
\* ROLLBACK of the catch block raised
C28_EndedOnceInsideTransaction ==
  BeginSent(last.statements) /\ ~RaisedOutsideTransaction(last) => EndedOnce(last)
\* a record call sent ROLLBACK after its COMMIT
C28_RollbackAfterCommit ==
  /\ last.op = "recordDailyDispensing" /\ last.code = 500
  /\ RollbackAfterCommit(last.statements)
\* a request ended without a response: the ROLLBACK of its catch block raised
C28_NoResponse ==
  /\ last.op = "approveAllItems" /\ last.code = NoResponse
  /\ BeginSent(last.statements)
  /\ Ended(last.statements) = {}

\* importDrugs answered 200 for two rows and its COMMIT rolled them back
C28_ImportDrugsLost ==
  /\ last.op = "importDrugs" /\ last.code = 200 /\ last.updated = 1
  /\ Len(last.errors) = 1 /\ db \in FreshDbs
\* the upload of a dispensing import could not be read: the request has sent
\* no statement and is not answered
C28_UnreadableUpload ==
  /\ last.op = "importDispensingRecords" /\ last.code = NoResponse
  /\ last.statements = <<>>

\* under the fair scheduler an approve-all call that has sent BEGIN, waiting
\* for the rows another call has locked or not, comes to its end
C28_BegunCallEnds ==
  \A p \in Procs : (pc[p] = "aa_select") ~> (pc[p] = "idle")

\* ------------------------------------------------------------ conservation
\* what drug x's stock, its order items in status approved or shipped and its
\* dispensing rows add up to
ApprovedQuantity(d, x) ==
  SumQuantity(d, {i \in Items : ItemDrug(i) = x /\ d.status[i] \in {"approved", "shipped"}})
Ledger(d, x) == StockAndDispensed(d, x) + ApprovedQuantity(d, x)
\* the single-item updates that keep to the order item's life cycle: nothing
\* to or from shipped, and an approved item is only rejected or left as it is
InLifeCycle(a, item) ==
  LET new == IF a.status = NoStatus THEN item.current_status ELSE a.status
  IN /\ item.current_status # "shipped" /\ new # "shipped"
     /\ item.current_status = "approved" =>
          new = "rejected" \/ (new = "approved" /\ ~Truthy(a.quantity))

\* C29: conservation of stock: for every drug, stock + the quantities of its
\* order items in status approved or shipped + the quantities of its
\* dispensing rows stays what the stock was at the start, through every
\* single-item update, approve-all call and dispensing record, update or
\* delete; approving an approved item again takes nothing from the stock.
C29_Conservation ==
  [][\A x \in Drugs : Ledger(db', x) = Ledger(db, x)]_vars
\* what does hold: the sum is kept by approve-all and by the single-item
\* updates that keep to the life cycle; and approving an approved item again
\* leaves the stock alone
C29_ConservationInLifeCycle ==
  [][/\ (\A p \in Procs : UpdEnds(p) => InLifeCycle(args[p], loc[p].item))
          => \A x \in Drugs : Ledger(db', x) = Ledger(db, x)
     /\ \A p \in Procs :
          UpdEnds(p) /\ args[p].status = "approved"
            /\ loc[p].item.current_status = "approved" => db'.stock = db.stock]_vars
\* a pending item was marked shipped: it counts, and the stock was never
\* reduced for it
C29_ShippedUnpaid ==
  /\ last.op = "updateOrderItemStatus" /\ last.code = 200
  /\ \E i \in Items : ItemDrug(i) # NoDrug /\ db.status[i] = "shipped" /\ ~hist[i].valid
  /\ \A i \in Items : db.status[i] \in {"pending", "shipped"}
  /\ db.dds = {}
\* an approved item was approved again and the stock stayed
C29_ApprovedAgain ==
  /\ last.op = "updateOrderItemStatus" /\ last.code = 200
  /\ \E i \in Items : db.status[i] = "approved" /\ hist[i].valid
                       /\ hist[i].before = db.stock[ItemDrug(i)] + db.quantity[i]
  /\ nreq[1] = MaxReq - 2

\* what the items counted by a response ask of drug x
CountedQuantity(d, r, x) == SumQuantity(d, {i \in r.counted : ItemDrug(i) = x})

\* C30: in one approve-all call on an order with two or more pending items of
\* the same drug, the stock check of each item accounts for the decrements
\* made for the items before it in the same call: the quantities approved for
\* a drug in the call never exceed the drug's stock at the start of the call,
\* so the call alone never drives the stock below 0.
C30_RunningStock ==
  [][\A p \in Procs : ApproveAllEnds(p) =>
       \A x \in Drugs :
         /\ CountedQuantity(db, last', x) <= db.stock[x]
         /\ db.stock[x] >= 0 => db'.stock[x] >= 0]_vars
\* what does hold: every counted item alone is within the stock the SELECT of
\* the call read for it
C30_EachWithinSnapshot ==
  [][\A p \in Procs : ApproveAllEnds(p) =>
       \A i \in last'.counted : db.quantity[i] <= db.stock[ItemDrug(i)]]_vars
\* one call has approved two items of a drug and left its stock below 0
C30_Overdrawn ==
  /\ last.op = "approveAllItems" /\ last.code = 200 /\ last.approvedCount = 2
  /\ db.status[1] = "approved" /\ db.status[2] = "approved"
  /\ db.stock[ItemDrug(1)] < 0 /\ nreq[1] = MaxReq - 1
====
